---- MODULE Spec2Model ----
(***************************************************************************)
(* Shift generation engine of backend/routes/shift.py:                     *)
(* generate_optimized_shifts (Phases 0..6 and the Final Check) as a state  *)
(* machine that takes one step per iteration of each phase's outer loop.   *)
(* Employees are the roster positions 1..K (assign_shifts passes the names *)
(* ordered by name), days are the indices 0..total_days-1 of the source.   *)
(***************************************************************************)
EXTENDS Integers, Sequences, FiniteSets, TLC

\* ------------------------------------------------------------------ bounds
MaxEmployees == 6       \* largest roster drawn
MaxShortDays == 12      \* longest period shorter than a month that is drawn
MaxDays == 29           \* longest calendar month drawn
MaxShuffle == 2         \* outcomes of one random.shuffle that are drawn
MaxChoice == 1          \* outcomes of one random.choice that are drawn
MaxRequests == 2        \* requests served in one behaviour of the service
MaxSeed == 2            \* random streams a request's generation is drawn from
MaxCheckCells == 6      \* cells of the largest matrix handed to the Final Check alone
MaxCheckDays == 2       \* days of the longest matrix handed to the Final Check alone
MaxViableCells == 5     \* cells of the largest matrix handed to is_shift_viable alone
MaxBlockCells == 6      \* cells of the largest matrix handed to the Night-Block Guarantor alone
MaxPatternBack == 4     \* days before day 28 that vary in a row handed to the Pattern Replicator alone
MaxBalanceDays == 2     \* days of the longest matrix handed to the Balancer alone
MaxFixCells == 5        \* cells of the largest matrix handed to the Final Corrector alone
MaxRepairCells == 4     \* cells of the largest matrix handed to the repair phases alone
MaxEntries == 2         \* entries of the longest adjust_shift request body
MaxPairEmployees == 3   \* largest roster handed to assign_night_shift_pairs alone
MaxPairDays == 14       \* longest period handed to assign_night_shift_pairs alone

\* ------------------------------------------------- configuration (source)
None == -1              \* an unset cell (Python None)
Off == 0
Morning == 1
Evening == 2
Night == 3
SHIFTS == <<1, 2, 3>>
SHIFT_NAMES == {0, 1, 2, 3}
TARGET_SHIFTS_PER_DAY == [s \in {1, 2, 3} |-> IF s = 3 THEN 1 ELSE 2]
min_required_employees ==
    TARGET_SHIFTS_PER_DAY[1] + TARGET_SHIFTS_PER_DAY[2] + TARGET_SHIFTS_PER_DAY[3] + 1
pattern_days == 28
max_offs == 5
max_consecutive_work_days == 7
MAX_BALANCE_ITERATIONS == 7
max_check_iterations == 5
pair_gap == 10
Infinity == 100000      \* float('inf') in the off-day score

VARIABLES
    pc,                   \* position of generate_optimized_shifts
    idx,                  \* index of the running outer loop
    employee_names,       \* the roster, a sequence of employee ids
    total_days,
    employee_shifts,      \* [employee -> [day -> code or None]]
    shift_counts,         \* [employee -> [code -> tally]]
    days_with_offs_count, \* [day -> count]
    last_pair_end,        \* assign_night_shift_pairs local
    night_assigned,       \* assign_night_shift_pairs local
    last_off_day,         \* Phase 1 local
    weekday_offs,         \* Phase 1 local
    nn_warned,            \* employees with "Could not find a viable N-N block"
    final_errors,
    final_warnings,
    shift_assignment,     \* ShiftAssignment table of the month:
                          \* [employee, day -> codes of the stored records]
    status_code,          \* HTTP status of the last response, 0 before any
    requests,             \* requests received so far
    random_state,         \* Unseeded, or the stream the running generation draws
    handler,              \* the entry point called last: "generate_optimized_shifts"
                          \* (a direct call), "assign_shifts", "adjust_shift",
                          \* "swap_shifts", "delete_shift_schedule", "none"
    viable_args,          \* <<name, day, shift>> of a direct call of
                          \* is_shift_viable, <<>> when there was none
    viable_returned,      \* what that call returned
    adjust_request,       \* <<employee_id, entries>> of the adjust_shift request
                          \* answered last, <<>> when the last request was
                          \* another one
    writes                \* the Morning, Evening and Night writes of the running
                          \* generation: <<phase, employee, day, code, legal>>,
                          \* legal being is_shift_viable just before the write

vars == <<pc, idx, employee_names, total_days, employee_shifts, shift_counts,
          days_with_offs_count, last_pair_end, night_assigned, last_off_day,
          weekday_offs, nn_warned, final_errors, final_warnings,
          shift_assignment, status_code, requests, random_state, handler,
          viable_args, viable_returned, adjust_request, writes>>

Probe == <<viable_args, viable_returned>>
Service == <<shift_assignment, status_code, requests, random_state, handler, Probe,
            adjust_request>>

\* ----------------------------------------------------------------- helpers
Min2(a, b) == IF a < b THEN a ELSE b
Max2(a, b) == IF a > b THEN a ELSE b
Abs(a) == IF a < 0 THEN -a ELSE a
Range(s) == {s[i] : i \in 1..Len(s)}
Pick(s, S) == SelectSeq(s, LAMBDA x : x \in S)
Remove(s, x) == SelectSeq(s, LAMBDA y : y # x)
Rotate(s, k) == [i \in 1..Len(s) |-> s[((i - 1 + k) % Len(s)) + 1]]
Reverse(s) == [i \in 1..Len(s) |-> s[Len(s) + 1 - i]]
\* random.shuffle may leave any permutation; outcome k drawn here is the list
\* rotated by k \div 2 and, for odd k, reversed (0: unchanged, 1: reversed, ...)
\* The outcomes a random call with n possible outcomes is drawn from: all of
\* them for an unseeded run, the one fixed by the stream for a seeded run.
Unseeded == -1
Drawn(n) == IF random_state = Unseeded THEN 1..n ELSE {(random_state % n) + 1}

Shuffled(s, k) == IF k % 2 = 0 THEN Rotate(s, k \div 2) ELSE Reverse(Rotate(s, k \div 2))

\* position of the first element of s with the least key
FirstMin(s, key) ==
    CHOOSE i \in 1..Len(s) :
        \A j \in 1..Len(s) : key[s[i]] < key[s[j]] \/ (key[s[i]] = key[s[j]] /\ i <= j)

RECURSIVE StableSort(_, _)
\* list.sort(key=...) / sorted(..., key=...): stable, ascending in key
StableSort(s, key) ==
    IF Len(s) <= 1 THEN s
    ELSE LET m == FirstMin(s, key)
         IN <<s[m]>> \o StableSort(SubSeq(s, 1, m - 1) \o SubSeq(s, m + 1, Len(s)), key)

Head2(s, n) == SubSeq(s, 1, Min2(n, Len(s)))

CountDay(es, names, day, s) == Cardinality({e \in Range(names) : es[e][day] = s})
CountRow(row, T, s) == Cardinality({d \in 0..(T - 1) : row[d] = s})

\* the recounts of lines 331-336 and 495-500
Recount(es, names, T) ==
    [e \in Range(names) |-> [c \in SHIFT_NAMES |-> CountRow(es[e], T, c)]]

\* ------------------------------------------------------ Constraint Checkers
\* A predicate that looks back two days at most
is_shift_viable_TwoBack(es, name, day, shift, T) ==
    IF shift = None THEN FALSE
    ELSE IF shift = 0 THEN TRUE
    ELSE IF day >= T THEN FALSE
    ELSE LET row == es[name]
             prev_shift == IF day > 0 THEN row[day - 1] ELSE None
             prev_prev_shift == IF day > 1 THEN row[day - 2] ELSE None
         IN  /\ ~(day >= 2 /\ prev_prev_shift = 3 /\ prev_shift = 3)
             /\ ~(shift = 1 /\ prev_shift = 3)
             /\ ~(shift = 1 /\ day >= 2 /\ prev_shift = 2 /\ prev_prev_shift = 3)

\* is_shift_viable, lines 230-270
is_shift_viable(es, name, day, shift, T) ==
    IF shift = None THEN FALSE
    ELSE IF shift = 0 THEN TRUE
    ELSE IF day >= T THEN FALSE
    ELSE LET row == es[name]
             prev_shift == IF day > 0 THEN row[day - 1] ELSE None
             prev_prev_shift == IF day > 1 THEN row[day - 2] ELSE None
         IN  /\ ~(day >= 2 /\ prev_prev_shift = 3 /\ prev_shift = 3)
             /\ ~(shift = 1 /\ prev_shift = 3)
             /\ ~(shift = 3 /\ prev_shift = 3 /\ prev_prev_shift = 3)
             /\ ~(shift = 1 /\ day >= 2 /\ prev_shift = 2 /\ prev_prev_shift = 3)
             /\ ~(shift = 1 /\ day >= 3
                    /\ row[day - 3] = 3 /\ row[day - 2] = 2 /\ row[day - 1] = 2)
             /\ ~(shift = 1 /\ day >= 4
                    /\ \/ (row[day - 4] = 3 /\ row[day - 3] = 2
                             /\ row[day - 2] = 3 /\ row[day - 1] = 2)
                       \/ (row[day - 4] = 2 /\ row[day - 3] = 3
                             /\ row[day - 2] = 2 /\ row[day - 1] = 2))

\* The log with the write of code s into cell (emp, day) of matrix es: a write
\* of Morning, Evening or Night is entered with what is_shift_viable returns
\* for it on es, the matrix as it stands before the write
Logged(log, es, emp, day, s) ==
    IF s \in {1, 2, 3}
    THEN log \cup {<<pc, emp, day, s, is_shift_viable(es, emp, day, s, total_days)>>}
    ELSE log

\* The log with Night written on day and then on day+1 (lines 300-301, 699-700)
LoggedPair(log, es, emp, day) ==
    Logged(Logged(log, es, emp, day, 3), [es EXCEPT ![emp][day] = 3], emp, day + 1, 3)

\* --------------------------------------------- Phase 0: night shift pairs
PairCandidates_NoGap(es, names, T, lpe, offs, day) ==
    Pick(names, {e \in Range(names) :
        /\ es[e][day] = None
        /\ es[e][day + 1] = None
        /\ (day + 2 >= T \/ (es[e][day + 2] = None /\ offs[day + 2] = 0))})

PairCandidates(es, names, T, lpe, offs, day) ==
    Pick(names, {e \in Range(names) :
        /\ lpe[e] + pair_gap <= day
        /\ es[e][day] = None
        /\ es[e][day + 1] = None
        /\ (day + 2 >= T \/ (es[e][day + 2] = None /\ offs[day + 2] = 0))})

SingleNightCandidates(es, names, T, day) ==
    Pick(names, {e \in Range(names) :
        es[e][day] = None /\ is_shift_viable(es, e, day, 3, T)})

EmptyStore(names, T) == [e \in Range(names), d \in 1..T |-> <<>>]

\* The tables of generate_optimized_shifts before a call
NoCall ==
    /\ idx = 0
    /\ employee_shifts = <<>>
    /\ shift_counts = <<>>
    /\ days_with_offs_count = <<>>
    /\ last_pair_end = <<>>
    /\ night_assigned = <<>>
    /\ last_off_day = <<>>
    /\ weekday_offs = <<>>
    /\ nn_warned = {}
    /\ final_errors = 0
    /\ final_warnings = 0
    /\ viable_args = <<>>
    /\ viable_returned = FALSE
    /\ adjust_request = <<>>
    /\ writes = {}

\* A direct call generate_optimized_shifts(employee_names, total_days)
Init ==
    /\ pc = "start"
    /\ \E K \in (min_required_employees - 1)..MaxEmployees :
         employee_names = [i \in 1..K |-> i]
    /\ total_days \in (1..MaxShortDays) \cup (pattern_days..MaxDays)
    /\ NoCall
    /\ shift_assignment = EmptyStore(employee_names, total_days)
    /\ status_code = 0
    /\ requests = 0
    /\ random_state = Unseeded
    /\ handler = "generate_optimized_shifts"

\* generate_optimized_shifts, lines 321-329: roster check and initial tables
Begin ==
    /\ pc = "start"
    /\ IF Len(employee_names) < min_required_employees
       THEN /\ pc' = "raised"
            /\ UNCHANGED <<employee_shifts, shift_counts, days_with_offs_count,
                           last_pair_end, night_assigned>>
       ELSE /\ pc' = "p0_pairs"
            /\ employee_shifts' =
                 [e \in Range(employee_names) |-> [d \in 0..(total_days - 1) |-> None]]
            /\ shift_counts' = [e \in Range(employee_names) |-> [c \in SHIFT_NAMES |-> 0]]
            /\ days_with_offs_count' = [d \in 0..(total_days - 1) |-> 0]
            /\ last_pair_end' = [e \in Range(employee_names) |-> -100]
            /\ night_assigned' = [d \in 0..(total_days - 1) |-> FALSE]
    /\ idx' = 0
    /\ UNCHANGED Service
    /\ UNCHANGED writes
    /\ UNCHANGED <<employee_names, total_days, last_off_day, weekday_offs,
                   nn_warned, final_errors, final_warnings>>

\* A pair allocator that forgets the Off behind the pair
AssignPair_NoOff(es, emp, day, T) ==
    [es EXCEPT ![emp] = [d \in 0..(T - 1) |->
                           IF d = day \/ d = day + 1 THEN 3 ELSE es[emp][d]]]

\* lines 300-306: Night on day and day+1, Off on day+2 when inside the period
AssignPair(es, emp, day, T) ==
    [es EXCEPT ![emp] = [d \in 0..(T - 1) |->
                           IF d = day \/ d = day + 1 THEN 3
                           ELSE IF d = day + 2 THEN 0
                           ELSE es[emp][d]]]

\* assign_night_shift_pairs, first loop: one day pair (idx, idx+1)
NightPairStep ==
    /\ pc = "p0_pairs"
    /\ LET day == idx
           T == total_days
           candidates == PairCandidates(employee_shifts, employee_names, T,
                                        last_pair_end, days_with_offs_count, day)
       IN IF day >= T - 1
          THEN /\ pc' = "p0_single"
               /\ idx' = 0
               /\ UNCHANGED <<writes, employee_shifts, night_assigned, last_pair_end,
                              days_with_offs_count>>
          ELSE /\ pc' = pc
               /\ idx' = idx + 1
               /\ IF night_assigned[day] \/ night_assigned[day + 1] \/ candidates = <<>>
                  THEN UNCHANGED <<writes, employee_shifts, night_assigned, last_pair_end,
                                   days_with_offs_count>>
                  ELSE LET emp == candidates[FirstMin(candidates, last_pair_end)]
                       IN /\ employee_shifts' = AssignPair(employee_shifts, emp, day, T)
                          /\ writes' = LoggedPair(writes, employee_shifts, emp, day)
                          /\ night_assigned' =
                               [night_assigned EXCEPT ![day] = TRUE, ![day + 1] = TRUE]
                          /\ last_pair_end' = [last_pair_end EXCEPT ![emp] = day + 1]
                          /\ days_with_offs_count' =
                               IF day + 2 < T
                               THEN [days_with_offs_count EXCEPT ![day + 2] = 1]
                               ELSE days_with_offs_count
    /\ UNCHANGED Service
    /\ UNCHANGED <<employee_names, total_days, shift_counts, last_off_day,
                   weekday_offs, nn_warned, final_errors, final_warnings>>

\* assign_night_shift_pairs, second loop: a single Night for a day without a pair
SingleNightStep ==
    /\ pc = "p0_single"
    /\ LET day == idx
           T == total_days
           candidates == SingleNightCandidates(employee_shifts, employee_names, T, day)
       IN IF day >= T
          THEN /\ pc' = "p1_streak"
               /\ idx' = 0
               /\ last_off_day' = [e \in Range(employee_names) |-> -10]
               /\ weekday_offs' = [e \in Range(employee_names) |-> {}]
               /\ shift_counts' = Recount(employee_shifts, employee_names, T)
               /\ UNCHANGED <<employee_shifts, writes>>
          ELSE /\ pc' = pc
               /\ idx' = idx + 1
               /\ UNCHANGED <<last_off_day, weekday_offs, shift_counts>>
               /\ IF night_assigned[day] \/ candidates = <<>>
                  THEN UNCHANGED <<employee_shifts, writes>>
                  ELSE \E r \in Drawn(Min2(Len(candidates), MaxChoice)) :
                         /\ employee_shifts' =
                              [employee_shifts EXCEPT ![candidates[r]][day] = 3]
                         /\ writes' = Logged(writes, employee_shifts,
                                             candidates[r], day, 3)
    /\ UNCHANGED Service
    /\ UNCHANGED <<employee_names, total_days, days_with_offs_count,
                   last_pair_end, night_assigned, nn_warned, final_errors,
                   final_warnings>>

\* ------------------------------------------------- Phase 1: off days
\* The phase's tables as one record: es, sc, offs, lod (last_off_day), wo (weekday_offs)
GiveOff(st, employee, day) ==
    [es |-> [st.es EXCEPT ![employee][day] = 0],
     sc |-> [st.sc EXCEPT ![employee][0] = @ + 1],
     offs |-> [st.offs EXCEPT ![day] = @ + 1],
     lod |-> [st.lod EXCEPT ![employee] = day],
     wo |-> [st.wo EXCEPT ![employee] = @ \cup {day % 7}]]

\* lines 346-364: body of the work-streak loop for one employee and day
StreakEmployee(st, employee, day) ==
    IF day < max_consecutive_work_days THEN st
    ELSE LET window == {day - i : i \in 0..max_consecutive_work_days}
             work_streak == \A c \in window : st.es[employee][c] # 0
             consecutive_work == Cardinality({c \in window : st.es[employee][c] # None})
         IN IF /\ work_streak
               /\ consecutive_work > max_consecutive_work_days
               /\ st.es[employee][day] = None
               /\ st.offs[day] = 0
               /\ st.sc[employee][0] < max_offs
            THEN GiveOff(st, employee, day)
            ELSE st

RECURSIVE StreakDay(_, _, _, _)
StreakDay(st, names, i, day) ==
    IF i > Len(names) THEN st
    ELSE StreakDay(StreakEmployee(st, names[i], day), names, i + 1, day)

\* lines 381-386: the score of an open day, (a, b) encoded as 2a + b
OffDayScore(st, employee, day) ==
    LET gap_from_last == IF st.lod[employee] >= 0 THEN day - st.lod[employee] ELSE Infinity
        gap_ok == IF gap_from_last # Infinity
                  THEN 5 <= gap_from_last /\ gap_from_last <= 7 ELSE TRUE
        first == IF gap_ok
                 THEN (IF gap_from_last = Infinity THEN Infinity ELSE Abs(gap_from_last - 6))
                 ELSE 100
    IN 2 * first + (IF (day % 7) \in st.wo[employee] THEN 1 ELSE 0)

\* lines 372-396: one employee of the shuffled roster in one week
WeekEmployee(st, employee, week, T) ==
    LET week_start == week * 7
        week_end == Min2(week_start + 7, T)
        days == week_start..(week_end - 1)
        has_off_this_week == \E d \in days : st.es[employee][d] = 0
        open == {d \in days : st.es[employee][d] = None /\ st.offs[d] = 0}
        score == [d \in open |-> OffDayScore(st, employee, d)]
        least == CHOOSE d \in open :
                   \A f \in open : score[d] < score[f] \/ (score[d] = score[f] /\ d <= f)
        first_open == CHOOSE d \in open : \A f \in open : d <= f
        best_day == IF score[least] >= 200 THEN first_open ELSE least
    IN IF st.sc[employee][0] >= max_offs \/ has_off_this_week \/ open = {}
       THEN st
       ELSE GiveOff(st, employee, best_day)

RECURSIVE WeekLoop(_, _, _, _, _)
WeekLoop(st, shuffled_employees, i, week, T) ==
    IF i > Len(shuffled_employees) THEN st
    ELSE WeekLoop(WeekEmployee(st, shuffled_employees[i], week, T),
                  shuffled_employees, i + 1, week, T)

Phase1State ==
    [es |-> employee_shifts, sc |-> shift_counts, offs |-> days_with_offs_count,
     lod |-> last_off_day, wo |-> weekday_offs]

SetPhase1(st) ==
    /\ employee_shifts' = st.es
    /\ shift_counts' = st.sc
    /\ days_with_offs_count' = st.offs
    /\ last_off_day' = st.lod
    /\ weekday_offs' = st.wo

\* lines 344-364: the work-streak scan of one day
StreakStep ==
    /\ pc = "p1_streak"
    /\ IF idx >= total_days
       THEN /\ pc' = "p1_weeks"
            /\ idx' = 0
            /\ SetPhase1(Phase1State)
       ELSE /\ pc' = pc
            /\ idx' = idx + 1
            /\ SetPhase1(StreakDay(Phase1State, employee_names, 1, idx))
    /\ UNCHANGED Service
    /\ UNCHANGED writes
    /\ UNCHANGED <<employee_names, total_days, last_pair_end, night_assigned,
                   nn_warned, final_errors, final_warnings>>

\* lines 366-396: one week, the roster shuffled
WeekStep ==
    /\ pc = "p1_weeks"
    /\ IF idx >= (total_days + 6) \div 7
       THEN /\ pc' = "p1_sweep"
            /\ idx' = 0
            /\ SetPhase1(Phase1State)
       ELSE /\ pc' = pc
            /\ idx' = idx + 1
            /\ \E k \in {j - 1 : j \in Drawn(MaxShuffle)} :
                 SetPhase1(WeekLoop(Phase1State, Shuffled(employee_names, k), 1,
                                    idx, total_days))
    /\ UNCHANGED Service
    /\ UNCHANGED writes
    /\ UNCHANGED <<employee_names, total_days, last_pair_end, night_assigned,
                   nn_warned, final_errors, final_warnings>>

SweepCandidates_NoCap(es, sc, names, day) ==
    Pick(names, {emp \in Range(names) : es[emp][day] = None})

SweepCandidates(es, sc, names, day) ==
    Pick(names, {e \in Range(names) : es[e][day] = None /\ sc[e][0] < max_offs})

\* lines 398-408: a day that still has no Off drafts one
SweepStep ==
    /\ pc = "p1_sweep"
    /\ LET day == idx
           candidates == SweepCandidates(employee_shifts, shift_counts,
                                         employee_names, day)
       IN IF day >= total_days
          THEN /\ pc' = "p2"
               /\ idx' = 0
               /\ UNCHANGED <<employee_shifts, shift_counts, days_with_offs_count>>
          ELSE /\ pc' = pc
               /\ idx' = idx + 1
               /\ IF days_with_offs_count[day] # 0 \/ candidates = <<>>
                  THEN UNCHANGED <<employee_shifts, shift_counts, days_with_offs_count>>
                  ELSE \E r \in Drawn(Min2(Len(candidates), MaxChoice)) :
                         /\ employee_shifts' =
                              [employee_shifts EXCEPT ![candidates[r]][day] = 0]
                         /\ shift_counts' =
                              [shift_counts EXCEPT ![candidates[r]][0] = @ + 1]
                         /\ days_with_offs_count' =
                              [days_with_offs_count EXCEPT ![day] = 1]
    /\ UNCHANGED Service
    /\ UNCHANGED writes
    /\ UNCHANGED <<employee_names, total_days, last_pair_end, night_assigned,
                   last_off_day, weekday_offs, nn_warned, final_errors,
                   final_warnings>>

\* ------------------------------------- Phase 2: initial shift assignments
Locals == <<last_pair_end, night_assigned, last_off_day, weekday_offs>>
Inputs == <<employee_names, total_days>>
Report == <<nn_warned, final_errors, final_warnings>>

SetCell(st, emp, day, s) ==
    [st EXCEPT !.es = [st.es EXCEPT ![emp][day] = s],
               !.sc = [st.sc EXCEPT ![emp][s] = @ + 1],
               !.log = Logged(st.log, st.es, emp, day, s)]

RECURSIVE AssignAll(_, _, _, _, _)
AssignAll(st, chosen, i, day, s) ==
    IF i > Len(chosen) THEN st
    ELSE AssignAll([SetCell(st, chosen[i], day, s) EXCEPT
                        !.avail = Remove(st.avail, chosen[i])],
                   chosen, i + 1, day, s)

\* lines 419-449: fill the deficit of shift s from the least loaded candidates
FillShift(st, names, day, s, T) ==
    LET needed == Max2(0, TARGET_SHIFTS_PER_DAY[s] - CountDay(st.es, names, day, s))
        viable == Pick(st.avail, {e \in Range(st.avail) :
                                     is_shift_viable(st.es, e, day, s, T)})
        candidates == StableSort(viable, [e \in Range(names) |-> st.sc[e][s]])
    IN IF needed > 0 THEN AssignAll(st, Head2(candidates, needed), 1, day, s) ELSE st

\* lines 452-468: fallback for one employee still unset that day
FallbackEmployee(st, names, emp, day, T) ==
    LET preferred_order ==
            (IF CountDay(st.es, names, day, 2) < TARGET_SHIFTS_PER_DAY[2]
             THEN <<2>> ELSE <<>>)
            \o <<1>> \o
            (IF CountDay(st.es, names, day, 3) < TARGET_SHIFTS_PER_DAY[3]
             THEN <<3>> ELSE <<>>)
        ok == {i \in 1..Len(preferred_order) :
                 is_shift_viable(st.es, emp, day, preferred_order[i], T)}
    IN IF ok = {} THEN st
       ELSE SetCell(st, emp, day, preferred_order[CHOOSE i \in ok : \A j \in ok : i <= j])

RECURSIVE FallbackLoop(_, _, _, _, _, _)
FallbackLoop(st, names, rest, i, day, T) ==
    IF i > Len(rest) THEN st
    ELSE FallbackLoop(FallbackEmployee(st, names, rest[i], day, T),
                      names, rest, i + 1, day, T)

InitialDay(es, sc, names, day, T) ==
    LET st0 == [es |-> es, sc |-> sc, log |-> writes,
                avail |-> Pick(names, {e \in Range(names) : es[e][day] = None})]
        st1 == FillShift(st0, names, day, 2, T)
        st2 == FillShift(st1, names, day, 1, T)
        st3 == FillShift(st2, names, day, 3, T)
    IN IF st0.avail = <<>> THEN st0
       ELSE FallbackLoop(st3, names, st3.avail, 1, day, T)

InitialStep ==
    /\ pc = "p2"
    /\ IF idx >= Min2(pattern_days, total_days)
       THEN /\ pc' = "p3"
            /\ idx' = pattern_days
            /\ UNCHANGED <<employee_shifts, shift_counts, writes>>
       ELSE LET st == InitialDay(employee_shifts, shift_counts, employee_names,
                                 idx, total_days)
            IN /\ pc' = pc
               /\ idx' = idx + 1
               /\ employee_shifts' = st.es
               /\ shift_counts' = st.sc
               /\ writes' = st.log
    /\ UNCHANGED Service
    /\ UNCHANGED <<days_with_offs_count, Locals, Inputs, Report>>

\* --------------------------------------- Phase 3: apply the 28-day pattern
PatternEmployee_CopyAlways(st, emp, day, T) ==
    LET pattern_shift == st.es[emp][day % pattern_days]
    IN IF st.es[emp][day] # None \/ pattern_shift = None THEN st
       ELSE SetCell(st, emp, day, pattern_shift)

PatternEmployee(st, emp, day, T) ==
    LET pattern_shift == st.es[emp][day % pattern_days]
        alts == <<2, 1, 3>>
        ok == {i \in 1..3 : is_shift_viable(st.es, emp, day, alts[i], T)}
    IN IF st.es[emp][day] # None \/ pattern_shift = None THEN st
       ELSE IF is_shift_viable(st.es, emp, day, pattern_shift, T)
            THEN SetCell(st, emp, day, pattern_shift)
       ELSE IF ok = {} THEN st
       ELSE SetCell(st, emp, day, alts[CHOOSE i \in ok : \A j \in ok : i <= j])

RECURSIVE PatternDay(_, _, _, _, _)
PatternDay(st, names, i, day, T) ==
    IF i > Len(names) THEN st
    ELSE PatternDay(PatternEmployee(st, names[i], day, T), names, i + 1, day, T)

PatternStep ==
    /\ pc = "p3"
    /\ IF idx >= total_days
       THEN /\ pc' = "p4"
            /\ idx' = 0
            /\ shift_counts' = Recount(employee_shifts, employee_names, total_days)
            /\ UNCHANGED <<employee_shifts, writes>>
       ELSE LET st == PatternDay([es |-> employee_shifts, sc |-> shift_counts,
                                  log |-> writes],
                                 employee_names, 1, idx, total_days)
            IN /\ pc' = pc
               /\ idx' = idx + 1
               /\ employee_shifts' = st.es
               /\ shift_counts' = st.sc
               /\ writes' = st.log
    /\ UNCHANGED Service
    /\ UNCHANGED <<days_with_offs_count, Locals, Inputs, Report>>

\* ---------------------------------------------- Phase 4: balancing shifts
\* one move of the Balancer: emp goes from shift `from` to shift `to` on `day`
BalanceMove(st, emp, day, from, to) ==
    [es |-> [st.es EXCEPT ![emp][day] = to],
     sc |-> [st.sc EXCEPT ![emp][from] = @ - 1, ![emp][to] = @ + 1],
     cnt |-> [st.cnt EXCEPT ![from] = @ - 1, ![to] = @ + 1],
     asg |-> [st.asg EXCEPT ![from] = Remove(@, emp), ![to] = Append(@, emp)],
     made_change |-> TRUE,
     log |-> Logged(st.log, st.es, emp, day, to)]

RECURSIVE MoveLoop_Unchecked(_, _, _, _, _, _, _, _, _)
MoveLoop_Unchecked(st, list, i, moved, limit, day, from, to, T) ==
    IF i > Len(list) \/ moved >= limit THEN st
    ELSE MoveLoop_Unchecked(BalanceMove(st, list[i], day, from, to), list, i + 1,
                            moved + 1, limit, day, from, to, T)

RECURSIVE MoveLoop(_, _, _, _, _, _, _, _, _)
\* the loops of lines 517-530, 538-550, 559-572: at most `limit` viable moves
MoveLoop(st, list, i, moved, limit, day, from, to, T) ==
    IF i > Len(list) \/ moved >= limit THEN st
    ELSE IF is_shift_viable(st.es, list[i], day, to, T)
         THEN MoveLoop(BalanceMove(st, list[i], day, from, to), list, i + 1,
                       moved + 1, limit, day, from, to, T)
         ELSE MoveLoop(st, list, i + 1, moved, limit, day, from, to, T)

BalanceEvening(st, names, day, T) ==
    LET current_e == st.cnt[2]
        target_e == TARGET_SHIFTS_PER_DAY[2]
        candidates_e == StableSort(st.asg[2], [e \in Range(names) |-> -st.sc[e][2]])
        donors0 == IF st.cnt[1] > TARGET_SHIFTS_PER_DAY[1] THEN st.asg[1] ELSE <<>>
        donors == StableSort(donors0,
                     [e \in Range(names) |->
                        (IF is_shift_viable(st.es, e, day, 2, T) THEN 0 ELSE 1000)
                        + st.sc[e][2]])
    IN IF current_e > target_e
       THEN MoveLoop(st, candidates_e, 1, 0, current_e - target_e, day, 2, 1, T)
       ELSE IF current_e < target_e
       THEN MoveLoop(st, donors, 1, 0, target_e - current_e, day, 1, 2, T)
       ELSE st

BalanceNight(st, names, day, T) ==
    LET current_n == st.cnt[3]
        target_n == TARGET_SHIFTS_PER_DAY[3]
        candidates_n == StableSort(st.asg[3], [e \in Range(names) |-> -st.sc[e][3]])
    IN IF current_n > target_n
       THEN MoveLoop(st, candidates_n, 1, 0, current_n - target_n, day, 3, 1, T)
       ELSE st

\* lines 505-572: one iteration of the balancing loop of a day
BalanceIteration(es, sc, log, names, day, T) ==
    LET asg == [s \in {1, 2, 3} |-> Pick(names, {e \in Range(names) : es[e][day] = s})]
        st0 == [es |-> es, sc |-> sc, cnt |-> [s \in {1, 2, 3} |-> Len(asg[s])],
                asg |-> asg, made_change |-> FALSE, log |-> log]
    IN BalanceNight(BalanceEvening(st0, names, day, T), names, day, T)

RECURSIVE BalanceDay(_, _, _, _, _, _, _)
BalanceDay(es, sc, log, names, day, T, iteration) ==
    IF iteration >= MAX_BALANCE_ITERATIONS THEN [es |-> es, sc |-> sc, log |-> log]
    ELSE LET st == BalanceIteration(es, sc, log, names, day, T)
         IN IF st.made_change
            THEN BalanceDay(st.es, st.sc, st.log, names, day, T, iteration + 1)
            ELSE [es |-> st.es, sc |-> st.sc, log |-> st.log]

BalanceStep ==
    /\ pc = "p4"
    /\ IF idx >= total_days
       THEN /\ pc' = "p45"
            /\ idx' = 0
            /\ UNCHANGED <<employee_shifts, shift_counts, writes>>
       ELSE LET st == BalanceDay(employee_shifts, shift_counts, writes, employee_names,
                                 idx, total_days, 0)
            IN /\ pc' = pc
               /\ idx' = idx + 1
               /\ employee_shifts' = st.es
               /\ shift_counts' = st.sc
               /\ writes' = st.log
    /\ UNCHANGED Service
    /\ UNCHANGED <<days_with_offs_count, Locals, Inputs, Report>>

\* ------------------------------------ Phase 4.5: guarantee shift presence
\* lines 595-608 (and the M and N copies): the donors of a fix towards shift s,
\* from the workers of shift a, then of shift b, sorted by the key
\* (not viable, tally of s, origin = b)
PresenceCandidates(es, sc, names, day, T, s, a, b) ==
    LET cnt == [c \in {1, 2, 3} |-> CountDay(es, names, day, c)]
        a_workers == Pick(names, {e \in Range(names) : es[e][day] = a})
        b_workers == Pick(names, {e \in Range(names) : es[e][day] = b})
        surplus == (IF cnt[a] > TARGET_SHIFTS_PER_DAY[a] THEN a_workers ELSE <<>>)
                   \o (IF cnt[b] > TARGET_SHIFTS_PER_DAY[b] THEN b_workers ELSE <<>>)
        at_target == (IF cnt[a] = TARGET_SHIFTS_PER_DAY[a] THEN a_workers ELSE <<>>)
                     \o (IF cnt[b] = TARGET_SHIFTS_PER_DAY[b] THEN b_workers ELSE <<>>)
    IN StableSort(IF surplus # <<>> THEN surplus ELSE at_target,
                  [e \in Range(names) |->
                     (IF is_shift_viable(es, e, day, s, T) THEN 0 ELSE Infinity)
                     + 2 * sc[e][s] + (IF es[e][day] = b THEN 1 ELSE 0)])

\* lines 611-616: the move of employee emp to shift s
PresenceMove(es, sc, emp, day, s) ==
    [es |-> [es EXCEPT ![emp][day] = s],
     sc |-> [sc EXCEPT ![emp][es[emp][day]] = @ - 1, ![emp][s] = @ + 1],
     moved |-> TRUE]

\* lines 609-617: the first viable candidate, if any, is moved
PresenceFirstViable(es, sc, day, s, candidates, ok) ==
    IF ok = {} THEN [es |-> es, sc |-> sc, moved |-> FALSE]
    ELSE PresenceMove(es, sc, candidates[CHOOSE i \in ok : \A j \in ok : i <= j], day, s)

PresenceTry(es, sc, day, T, s, candidates) ==
    PresenceFirstViable(es, sc, day, s, candidates,
        {i \in 1..Len(candidates) : is_shift_viable(es, candidates[i], day, s, T)})

\* lines 593-621: the fix of a day without shift s, drawing from shifts a and b
PresenceFix(es, sc, names, day, T, s, a, b) ==
    PresenceTry(es, sc, day, T, s, PresenceCandidates(es, sc, names, day, T, s, a, b))

\* lines 585-683: the branches of one pass, given the three possible fixes
PresenceBranches(es, sc, cnt, fixE, fixM, fixN) ==
    IF cnt[1] + cnt[2] + cnt[3] = 0
    THEN [es |-> es, sc |-> sc, needs_check |-> FALSE]
    ELSE IF cnt[2] = 0 /\ fixE.moved
         THEN [es |-> fixE.es, sc |-> fixE.sc, needs_check |-> TRUE]
    ELSE IF cnt[1] = 0 /\ fixM.moved
         THEN [es |-> fixM.es, sc |-> fixM.sc, needs_check |-> TRUE]
    ELSE IF cnt[3] = 0 /\ fixN.moved
         THEN [es |-> fixN.es, sc |-> fixN.sc, needs_check |-> TRUE]
    ELSE [es |-> es, sc |-> sc,
          needs_check |-> (cnt[2] = 0 \/ cnt[1] = 0 \/ cnt[3] = 0)]

\* lines 585-683: one pass of the while loop of a day
PresenceIteration(es, sc, names, day, T) ==
    PresenceBranches(es, sc, [c \in {1, 2, 3} |-> CountDay(es, names, day, c)],
                     PresenceFix(es, sc, names, day, T, 2, 1, 3),
                     PresenceFix(es, sc, names, day, T, 1, 2, 3),
                     PresenceFix(es, sc, names, day, T, 3, 1, 2))

\* lines 613, 644, 675: a pass moves one employee at most (it goes on to the
\* next pass once it has moved one), to a shift the employee did not hold; the
\* log with the write that led from matrix es to matrix es2
LoggedPass(log, es, es2, day) ==
    log \cup {<<pc, e, day, es2[e][day],
               is_shift_viable(es, e, day, es2[e][day], total_days)>> :
                 e \in {x \in DOMAIN es : es2[x][day] # es[x][day]}}

RECURSIVE PresenceDay(_, _, _, _, _, _, _)
\* line 585: the loop goes on while a pass asked for another check
PresenceAgain(st, es, log, names, day, T, check_iteration) ==
    IF st.needs_check
    THEN PresenceDay(st.es, st.sc, LoggedPass(log, es, st.es, day),
                     names, day, T, check_iteration + 1)
    ELSE [es |-> st.es, sc |-> st.sc, log |-> LoggedPass(log, es, st.es, day)]

PresenceDay(es, sc, log, names, day, T, check_iteration) ==
    IF check_iteration >= max_check_iterations THEN [es |-> es, sc |-> sc, log |-> log]
    ELSE PresenceAgain(PresenceIteration(es, sc, names, day, T),
                       es, log, names, day, T, check_iteration)

PresenceStep ==
    /\ pc = "p45"
    /\ IF idx >= total_days
       THEN /\ pc' = "p46"
            /\ idx' = 1
            /\ UNCHANGED <<employee_shifts, shift_counts, writes>>
       ELSE LET st == PresenceDay(employee_shifts, shift_counts, writes, employee_names,
                                  idx, total_days, 0)
            IN /\ pc' = pc
               /\ idx' = idx + 1
               /\ employee_shifts' = st.es
               /\ shift_counts' = st.sc
               /\ writes' = st.log
    /\ UNCHANGED Service
    /\ UNCHANGED <<days_with_offs_count, Locals, Inputs, Report>>

\* ----------------------- Phase 4.6: at least one N-N block per employee
has_nn(row, T) == \E d \in 0..(T - 2) : row[d] = 3 /\ row[d + 1] = 3

\* line 696-697: the days at which the scan of lines 695-705 would convert
NightBlockDays(es, emp, T) ==
    {day \in 0..(T - 2) :
        /\ es[emp][day] \in {None, 1, 2}
        /\ es[emp][day + 1] \in {None, 1, 2}
        /\ is_shift_viable(es, emp, day, 3, T)
        /\ is_shift_viable(es, emp, day + 1, 3, T)}

\* lines 698-703: the tally update; shift_counts[emp][None] is a KeyError
NightBlockTally(sc, emp, old1, old2) ==
    [sc EXCEPT ![emp] = [c \in SHIFT_NAMES |->
        sc[emp][c] - (IF c = old1 THEN 1 ELSE 0) - (IF c = old2 THEN 1 ELSE 0)
                   + (IF c = 3 THEN 2 ELSE 0)]]

NightBlockStep ==
    /\ pc = "p46"
    /\ IF idx > Len(employee_names)
       THEN /\ pc' = "p5"
            /\ idx' = 1
            /\ UNCHANGED <<employee_shifts, shift_counts, nn_warned, writes>>
       ELSE LET emp == employee_names[idx]
                days == NightBlockDays(employee_shifts, emp, total_days)
                day == CHOOSE d \in days : \A f \in days : d <= f
                old1 == employee_shifts[emp][day]
                old2 == employee_shifts[emp][day + 1]
            IN /\ idx' = idx + 1
               /\ IF has_nn(employee_shifts[emp], total_days)
                  THEN /\ pc' = pc
                       /\ UNCHANGED <<employee_shifts, shift_counts, nn_warned, writes>>
                  ELSE IF days = {}
                  THEN /\ pc' = pc
                       /\ nn_warned' = nn_warned \cup {emp}
                       /\ UNCHANGED <<employee_shifts, shift_counts, writes>>
                  ELSE /\ employee_shifts' =
                            [employee_shifts EXCEPT ![emp][day] = 3, ![emp][day + 1] = 3]
                       /\ UNCHANGED nn_warned
                       /\ writes' = LoggedPair(writes, employee_shifts, emp, day)
                       /\ IF old1 = None \/ old2 = None
                          THEN /\ pc' = "raised"
                               /\ shift_counts' =
                                    IF old1 = None THEN shift_counts
                                    ELSE [shift_counts EXCEPT ![emp][old1] = @ - 1]
                          ELSE /\ pc' = pc
                               /\ shift_counts' =
                                    NightBlockTally(shift_counts, emp, old1, old2)
    /\ UNCHANGED Service
    /\ UNCHANGED <<days_with_offs_count, Locals, Inputs, final_errors, final_warnings>>

\* ------------------------------------ Phase 5: final M-after-N validation
Retally(sc, emp, from, to) == [sc EXCEPT ![emp][from] = @ - 1, ![emp][to] = @ + 1]

\* lines 723-739: after M -> E made Evening exceed its target, give Morning an Evening
Mitigate(st, names, emp, day, T) ==
    LET candidates_e == StableSort(
            Pick(names, {e \in Range(names) : st.es[e][day] = 2 /\ e # emp}),
            [e \in Range(names) |-> st.sc[e][1]])
        ok == {i \in 1..Len(candidates_e) :
                 is_shift_viable(st.es, candidates_e[i], day, 1, T)}
        swap_emp == candidates_e[CHOOSE i \in ok : \A j \in ok : i <= j]
    IN IF /\ CountDay(st.es, names, day, 2) > TARGET_SHIFTS_PER_DAY[2]
          /\ CountDay(st.es, names, day, 1) < TARGET_SHIFTS_PER_DAY[1]
          /\ ok # {}
       THEN [st EXCEPT !.es = [st.es EXCEPT ![swap_emp][day] = 1],
                       !.sc = Retally(st.sc, swap_emp, 2, 1),
                       !.log = Logged(st.log, st.es, swap_emp, day, 1)]
       ELSE st

\* lines 713-747: one day of one employee
MorningAfterNightDay(st, names, emp, day, T) ==
    IF ~(st.es[emp][day] = 1 /\ st.es[emp][day - 1] = 3) THEN st
    ELSE IF is_shift_viable(st.es, emp, day, 2, T)
         THEN Mitigate([st EXCEPT !.es = [st.es EXCEPT ![emp][day] = 2],
                                  !.sc = Retally(st.sc, emp, 1, 2),
                                  !.log = Logged(st.log, st.es, emp, day, 2)],
                       names, emp, day, T)
    ELSE IF is_shift_viable(st.es, emp, day, 0, T) /\ st.offs[day] = 0
         THEN [es |-> [st.es EXCEPT ![emp][day] = 0],
               sc |-> Retally(st.sc, emp, 1, 0),
               offs |-> [st.offs EXCEPT ![day] = 1],
               log |-> st.log]
    ELSE st

Least(S) == CHOOSE d \in S : \A f \in S : d <= f

RECURSIVE MorningAfterNightRow(_, _, _, _, _)
\* the loop of line 712 from `day` on; it acts at the days where line 715 holds
MorningAfterNightRow(st, names, emp, day, T) ==
    LET hits == {d \in day..(T - 1) : st.es[emp][d] = 1 /\ st.es[emp][d - 1] = 3}
    IN IF hits = {} THEN st
       ELSE MorningAfterNightRow(MorningAfterNightDay(st, names, emp, Least(hits), T),
                                 names, emp, Least(hits) + 1, T)

RepairState ==
    [es |-> employee_shifts, sc |-> shift_counts, offs |-> days_with_offs_count,
     log |-> writes]

SetRepair(st) ==
    /\ employee_shifts' = st.es
    /\ shift_counts' = st.sc
    /\ days_with_offs_count' = st.offs
    /\ writes' = st.log

MorningAfterNightStep ==
    /\ pc = "p5"
    /\ IF idx > Len(employee_names)
       THEN /\ pc' = "p6"
            /\ idx' = 1
            /\ SetRepair(RepairState)
       ELSE /\ pc' = pc
            /\ idx' = idx + 1
            /\ SetRepair(MorningAfterNightRow(RepairState, employee_names,
                                              employee_names[idx], 1, total_days))
    /\ UNCHANGED Service
    /\ UNCHANGED <<Locals, Inputs, Report>>

\* ---------------------- Phase 6: final pattern / consecutive night correction
\* A corrector that leaves the cell as it is and only books the Off
ForceOff_Kept(st, emp, day) ==
    [st EXCEPT !.offs = [st.offs EXCEPT ![day] = 1]]

\* lines 758-763 and 804-808: the cell is forced to Off
ForceOff(st, emp, day) ==
    [es |-> [st.es EXCEPT ![emp][day] = 0],
     sc |-> Retally(st.sc, emp, st.es[emp][day], 0),
     offs |-> [st.offs EXCEPT ![day] = 1],
     log |-> st.log]

\* lines 775-785 and 813-822: the replacement draft; flag breaks ties in the sort
Replace(st, names, pool, day, s, flag) ==
    LET candidates == StableSort(Pick(names, pool),
                        [e \in Range(names) |->
                           2 * st.sc[e][s] + (IF flag[e] THEN 1 ELSE 0)])
        swap_emp == candidates[1]
    IN IF candidates = <<>> THEN st
       ELSE [st EXCEPT !.es = [st.es EXCEPT ![swap_emp][day] = s],
                       !.sc = Retally(st.sc, swap_emp, st.es[swap_emp][day], s),
                       !.log = Logged(st.log, st.es, swap_emp, day, s)]

\* line 755
NightNightNotOff(row, day) ==
    row[day - 2] = 3 /\ row[day - 1] = 3 /\ row[day] # 0 /\ row[day] # None

\* lines 791-802
ForbiddenMorning(row, day) ==
    LET pattern_nem == day >= 2 /\ row[day - 2] = 3 /\ row[day - 1] = 2
        pattern_nee == row[day - 3] = 3 /\ row[day - 2] = 2 /\ row[day - 1] = 2
        pattern_nene == day >= 4 /\ row[day - 4] = 3 /\ row[day - 3] = 2
                          /\ row[day - 2] = 3 /\ row[day - 1] = 2
        pattern_enee == day >= 4 /\ row[day - 4] = 2 /\ row[day - 3] = 3
                          /\ row[day - 2] = 2 /\ row[day - 1] = 2
    IN row[day] = 1 /\ (pattern_nem \/ pattern_nee \/ pattern_nene \/ pattern_enee)

\* A corrector without the N-N rule
NightNightOffDay_Skipped(st, names, emp, day, T) == st

\* A corrector that drafts a replacement without asking is_shift_viable
NightNightOffDay_AnyDraft(st, names, emp, day, T) ==
    LET orig_shift == st.es[emp][day]
        off == ForceOff(st, emp, day)
        pool == {e \in Range(names) :
                   /\ e # emp
                   /\ off.es[e][day] # 0
                   /\ off.es[e][day] # None}
    IN IF ~NightNightNotOff(st.es[emp], day) THEN st
       ELSE IF CountDay(off.es, names, day, orig_shift) < TARGET_SHIFTS_PER_DAY[orig_shift]
            THEN Replace(off, names, pool, day, orig_shift,
                         [e \in Range(names) |-> off.es[e][day] # 1])
            ELSE off

\* lines 755-787: N-N must be followed by Off
NightNightOffDay(st, names, emp, day, T) ==
    LET orig_shift == st.es[emp][day]
        off == ForceOff(st, emp, day)
        pool == {e \in Range(names) :
                   /\ e # emp
                   /\ off.es[e][day] # 0
                   /\ off.es[e][day] # None
                   /\ is_shift_viable(off.es, e, day, orig_shift, T)}
    IN IF ~NightNightNotOff(st.es[emp], day) THEN st
       ELSE IF CountDay(off.es, names, day, orig_shift) < TARGET_SHIFTS_PER_DAY[orig_shift]
            THEN Replace(off, names, pool, day, orig_shift,
                         [e \in Range(names) |-> off.es[e][day] # 1])
            ELSE off

\* lines 790-824: a Morning that completes a forbidden pattern
PatternDayFix(st, names, emp, day, T) ==
    LET off == ForceOff(st, emp, day)
        pool == {e \in Range(names) :
                   /\ e # emp
                   /\ off.es[e][day] \in {2, 3}
                   /\ is_shift_viable(off.es, e, day, 1, T)}
    IN IF ~ForbiddenMorning(st.es[emp], day) THEN st
       ELSE IF CountDay(off.es, names, day, 1) < TARGET_SHIFTS_PER_DAY[1]
            THEN Replace(off, names, pool, day, 1,
                         [e \in Range(names) |-> off.es[e][day] = 3])
            ELSE off

RECURSIVE NightNightOffRow(_, _, _, _, _)
\* the loop of line 754 from `day` on; it acts at the days where line 755 holds
NightNightOffRow(st, names, emp, day, T) ==
    LET hits == {d \in day..(T - 1) : NightNightNotOff(st.es[emp], d)}
    IN IF hits = {} THEN st
       ELSE NightNightOffRow(NightNightOffDay(st, names, emp, Least(hits), T),
                             names, emp, Least(hits) + 1, T)

RECURSIVE PatternFixRow(_, _, _, _, _)
\* the loop of line 789 from `day` on; it acts at the days where lines 790-802 hold
PatternFixRow(st, names, emp, day, T) ==
    LET hits == {d \in day..(T - 1) : ForbiddenMorning(st.es[emp], d)}
    IN IF hits = {} THEN st
       ELSE PatternFixRow(PatternDayFix(st, names, emp, Least(hits), T),
                          names, emp, Least(hits) + 1, T)

FinalCorrectorStep ==
    /\ pc = "p6"
    /\ IF idx > Len(employee_names)
       THEN /\ pc' = "final"
            /\ idx' = 0
            /\ SetRepair(RepairState)
       ELSE LET emp == employee_names[idx]
                st1 == NightNightOffRow(RepairState, employee_names, emp, 2, total_days)
            IN /\ pc' = pc
               /\ idx' = idx + 1
               /\ SetRepair(PatternFixRow(st1, employee_names, emp, 3, total_days))
    /\ UNCHANGED Service
    /\ UNCHANGED <<Locals, Inputs, Report>>

\* ------------------------------------------------------------ Final Check
\* A count that reports a missing shift on a day nobody works
DayErrors_PresenceAlways(es, names, day) ==
    LET m == CountDay(es, names, day, 1)
        e == CountDay(es, names, day, 2)
        n == CountDay(es, names, day, 3)
        o == CountDay(es, names, day, 0)
        none_count == CountDay(es, names, day, None)
    IN none_count
       + (IF ~(m > 0 /\ e > 0 /\ n > 0) THEN 1 ELSE 0)
       + (IF o # 1 THEN 1 ELSE 0)

\* lines 832-859: the critical errors and the warnings of one day
DayErrors(es, names, day) ==
    LET m == CountDay(es, names, day, 1)
        e == CountDay(es, names, day, 2)
        n == CountDay(es, names, day, 3)
        o == CountDay(es, names, day, 0)
        none_count == CountDay(es, names, day, None)
        presence_met == m > 0 /\ e > 0 /\ n > 0
    IN none_count
       + (IF m + e + n > 0 /\ ~presence_met THEN 1 ELSE 0)
       + (IF o # 1 THEN 1 ELSE 0)

\* A target that asks for exactly the Morning number
DayWarnings_ExactMorning(es, names, day) ==
    LET m == CountDay(es, names, day, 1)
        e == CountDay(es, names, day, 2)
        n == CountDay(es, names, day, 3)
        target_met == /\ n = TARGET_SHIFTS_PER_DAY[3]
                      /\ e = TARGET_SHIFTS_PER_DAY[2]
                      /\ m = TARGET_SHIFTS_PER_DAY[1]
        presence_met == m > 0 /\ e > 0 /\ n > 0
    IN IF m + e + n > 0 /\ presence_met /\ ~target_met THEN 1 ELSE 0

\* lines 844-855: the balance warning of one day
DayWarnings(es, names, day) ==
    LET m == CountDay(es, names, day, 1)
        e == CountDay(es, names, day, 2)
        n == CountDay(es, names, day, 3)
        target_met == /\ n = TARGET_SHIFTS_PER_DAY[3]
                      /\ e = TARGET_SHIFTS_PER_DAY[2]
                      /\ m >= TARGET_SHIFTS_PER_DAY[1]
        presence_met == m > 0 /\ e > 0 /\ n > 0
    IN IF m + e + n > 0 /\ presence_met /\ ~target_met THEN 1 ELSE 0

FinalCheckStep ==
    /\ pc = "final"
    /\ IF idx >= total_days
       THEN /\ pc' = "done"
            /\ idx' = 0
            /\ UNCHANGED <<final_errors, final_warnings>>
       ELSE /\ pc' = pc
            /\ idx' = idx + 1
            /\ final_errors' = final_errors + DayErrors(employee_shifts, employee_names, idx)
            /\ final_warnings' =
                 final_warnings + DayWarnings(employee_shifts, employee_names, idx)
    /\ UNCHANGED Service
    /\ UNCHANGED writes
    /\ UNCHANGED <<employee_shifts, shift_counts, days_with_offs_count, Locals,
                   Inputs, nn_warned>>

Next ==
    \/ Begin
    \/ NightPairStep
    \/ SingleNightStep
    \/ StreakStep
    \/ WeekStep
    \/ SweepStep
    \/ InitialStep
    \/ PatternStep
    \/ BalanceStep
    \/ PresenceStep
    \/ NightBlockStep
    \/ MorningAfterNightStep
    \/ FinalCorrectorStep
    \/ FinalCheckStep

Spec == Init /\ [][Next]_vars

\* ---------------------------------------------------------- API endpoints
Engine == <<idx, employee_shifts, shift_counts, days_with_offs_count, Locals, Report,
           writes>>

\* existing_count > 0 (lines 905-913)
Existing(sa) == \E k \in DOMAIN sa : sa[k] # <<>>

\* An endpoint that counts the roster before it looks for a stored schedule
assign_shifts_RosterFirst(force, month_ok, seed) ==
    /\ pc = "idle"
    /\ requests < MaxRequests
    /\ requests' = requests + 1
    /\ handler' = "assign_shifts"
    /\ IF ~month_ok \/ Len(employee_names) < min_required_employees
       THEN /\ status_code' = 400
            /\ UNCHANGED <<pc, random_state>>
       ELSE IF Existing(shift_assignment) /\ ~force
       THEN /\ status_code' = 409
            /\ UNCHANGED <<pc, random_state>>
       ELSE /\ pc' = "start"
            /\ status_code' = 0
            /\ random_state' = seed
    /\ adjust_request' = <<>>
    /\ UNCHANGED <<Engine, Inputs, Probe, shift_assignment>>

\* assign_shifts, lines 874-945: the checks before the generation.  month_ok is
\* FALSE for a month that is illegal, past or more than a year ahead.
assign_shifts(force, month_ok, seed) ==
    /\ pc = "idle"
    /\ requests < MaxRequests
    /\ requests' = requests + 1
    /\ handler' = "assign_shifts"
    /\ IF ~month_ok
       THEN /\ status_code' = 400
            /\ UNCHANGED <<pc, random_state>>
       ELSE IF Existing(shift_assignment) /\ ~force
       THEN /\ status_code' = 409
            /\ UNCHANGED <<pc, random_state>>
       ELSE IF Len(employee_names) < min_required_employees
       THEN /\ status_code' = 400
            /\ UNCHANGED <<pc, random_state>>
       ELSE /\ pc' = "start"
            /\ status_code' = 0
            /\ random_state' = seed
    /\ adjust_request' = <<>>
    /\ UNCHANGED <<Engine, Inputs, Probe, shift_assignment>>

\* The records assign_shifts stores for a matrix (lines 984-1005)
Stored(es, names, T) ==
    [e \in Range(names), d \in 1..T |->
        IF es[e][d - 1] = None THEN <<>> ELSE <<es[e][d - 1]>>]

\* assign_shifts, lines 945-1018: after the generation, delete the month's
\* records and store the matrix, or roll back when the generation raised
assign_shifts_store ==
    /\ handler = "assign_shifts"
    /\ pc \in {"done", "raised"}
    /\ IF pc = "done"
       THEN /\ shift_assignment' = Stored(employee_shifts, employee_names, total_days)
            /\ status_code' = 200
       ELSE /\ UNCHANGED shift_assignment
            /\ status_code' =
                 IF Len(employee_names) < min_required_employees THEN 400 ELSE 500
    /\ pc' = "idle"
    /\ idx' = 0
    /\ employee_shifts' = <<>>
    /\ shift_counts' = <<>>
    /\ days_with_offs_count' = <<>>
    /\ last_pair_end' = <<>>
    /\ night_assigned' = <<>>
    /\ last_off_day' = <<>>
    /\ weekday_offs' = <<>>
    /\ nn_warned' = {}
    /\ final_errors' = 0
    /\ final_warnings' = 0
    /\ writes' = {}
    /\ random_state' = Unseeded
    /\ UNCHANGED <<Inputs, Probe, requests, handler, adjust_request>>

RECURSIVE AdjustEntries_Gated(_, _, _, _, _)
\* An adjustment that refuses a Morning or a Night on the day after a Night
AdjustEntries_Gated(sa, employee_id, entries, i, T) ==
    IF i > Len(entries) THEN [ok |-> TRUE, sa |-> sa]
    ELSE LET day == entries[i][1]
             new_shift == entries[i][2]
         IN IF day < 1 \/ day > T THEN [ok |-> FALSE, sa |-> sa]
            ELSE IF new_shift \notin SHIFT_NAMES THEN [ok |-> FALSE, sa |-> sa]
            ELSE IF /\ new_shift \in {1, 3}
                    /\ day > 1
                    /\ sa[employee_id, day - 1] # <<>>
                    /\ Head(sa[employee_id, day - 1]) = 3
                 THEN [ok |-> FALSE, sa |-> sa]
            ELSE AdjustEntries_Gated(
                   [sa EXCEPT ![employee_id, day] =
                       IF @ = <<>> THEN <<new_shift>> ELSE <<new_shift>> \o Tail(@)],
                   employee_id, entries, i + 1, T)

RECURSIVE AdjustEntries_AlwaysCreate(_, _, _, _, _)
\* An adjustment that adds a record without looking for a stored one
AdjustEntries_AlwaysCreate(sa, employee_id, entries, i, T) ==
    IF i > Len(entries) THEN [ok |-> TRUE, sa |-> sa]
    ELSE LET day == entries[i][1]
             new_shift == entries[i][2]
         IN IF day < 1 \/ day > T THEN [ok |-> FALSE, sa |-> sa]
            ELSE IF new_shift \notin SHIFT_NAMES THEN [ok |-> FALSE, sa |-> sa]
            ELSE AdjustEntries_AlwaysCreate(
                   [sa EXCEPT ![employee_id, day] = <<new_shift>> \o @],
                   employee_id, entries, i + 1, T)

\* adjust_shift, lines 1155-1214: the entries from the i-th on, applied to the
\* session's view sa of the table; ok is FALSE when an entry raised
RECURSIVE AdjustEntries(_, _, _, _, _)
AdjustEntries(sa, employee_id, entries, i, T) ==
    IF i > Len(entries) THEN [ok |-> TRUE, sa |-> sa]
    ELSE LET day == entries[i][1]
             new_shift == entries[i][2]
         IN IF day < 1 \/ day > T THEN [ok |-> FALSE, sa |-> sa]
            ELSE IF new_shift \notin SHIFT_NAMES THEN [ok |-> FALSE, sa |-> sa]
            ELSE AdjustEntries(
                   [sa EXCEPT ![employee_id, day] =
                       IF @ = <<>> THEN <<new_shift>> ELSE <<new_shift>> \o Tail(@)],
                   employee_id, entries, i + 1, T)

\* An endpoint that commits what the entries before the failing one wrote
adjust_shift_PartialCommit(employee_id, entries) ==
    /\ pc = "idle"
    /\ requests < MaxRequests
    /\ requests' = requests + 1
    /\ handler' = "adjust_shift"
    /\ LET result == AdjustEntries(shift_assignment, employee_id, entries, 1, total_days)
       IN IF employee_id \notin Range(employee_names)
          THEN /\ status_code' = 404
               /\ UNCHANGED shift_assignment
          ELSE /\ status_code' = IF result.ok THEN 200 ELSE 400
               /\ shift_assignment' = result.sa
    /\ adjust_request' = <<employee_id, entries>>
    /\ UNCHANGED <<pc, Engine, Inputs, Probe, random_state>>

\* adjust_shift, lines 1135-1224
adjust_shift(employee_id, entries) ==
    /\ pc = "idle"
    /\ requests < MaxRequests
    /\ requests' = requests + 1
    /\ handler' = "adjust_shift"
    /\ LET result == AdjustEntries(shift_assignment, employee_id, entries, 1, total_days)
       IN IF employee_id \notin Range(employee_names)
          THEN /\ status_code' = 404
               /\ UNCHANGED shift_assignment
          ELSE IF ~result.ok
          THEN /\ status_code' = 400
               /\ UNCHANGED shift_assignment
          ELSE /\ status_code' = 200
               /\ shift_assignment' = result.sa
    /\ adjust_request' = <<employee_id, entries>>
    /\ UNCHANGED <<pc, Engine, Inputs, Probe, random_state>>

\* A lookup that reads a missing record as unset instead of Off
CurrentShift_NoDefault(sa, employee_id, day) ==
    IF sa[employee_id, day] = <<>> THEN None ELSE Head(sa[employee_id, day])

\* swap_shifts, lines 1238-1240: the code an employee holds on a day, Off when
\* no record is stored (a1 is the first record of the employee in assign_list)
CurrentShift(sa, employee_id, day) ==
    IF sa[employee_id, day] = <<>> THEN 0 ELSE Head(sa[employee_id, day])

\* swap_shifts, lines 1244-1246: the code stored for the previous calendar day
\* (the dict comprehension keeps the last record); the day before day 1 lies
\* in another month, of which the table holds nothing here
PrevShift(sa, employee_id, day) ==
    IF day = 1 \/ sa[employee_id, day - 1] = <<>> THEN None
    ELSE sa[employee_id, day - 1][Len(sa[employee_id, day - 1])]

\* Constraints that look at the second employee only
SwapAllowed_SecondOnly(s1, s2, prev_s1, prev_s2) ==
    /\ ~(s1 = 1 /\ prev_s2 = 3)
    /\ ~(s1 = 3 /\ prev_s2 = 3)

\* swap_shifts, lines 1249-1252: the constraints of a swap
SwapAllowed(s1, s2, prev_s1, prev_s2) ==
    /\ ~(s2 = 1 /\ prev_s1 = 3)
    /\ ~(s1 = 1 /\ prev_s2 = 3)
    /\ ~(s2 = 3 /\ prev_s1 = 3)
    /\ ~(s1 = 3 /\ prev_s2 = 3)

\* A swap that stores an Off like any other code
Received_KeepRecord(records, s) ==
    IF records = <<>> THEN <<s>> ELSE <<s>> \o Tail(records)

\* swap_shifts, lines 1255-1259 (and 1260-1264): the employee's records of the
\* day once the employee has received code s
Received(records, s) ==
    IF s = 0 THEN (IF records = <<>> THEN <<>> ELSE Tail(records))
    ELSE IF records = <<>> THEN <<s>> ELSE <<s>> \o Tail(records)

\* swap_shifts, lines 1227-1267
swap_shifts(employee1_id, employee2_id, day) ==
    /\ pc = "idle"
    /\ requests < MaxRequests
    /\ requests' = requests + 1
    /\ handler' = "swap_shifts"
    /\ IF day < 1 \/ day > total_days \/ employee1_id = employee2_id
       THEN /\ status_code' = 400
            /\ UNCHANGED shift_assignment
       ELSE IF employee1_id \notin Range(employee_names)
               \/ employee2_id \notin Range(employee_names)
       THEN /\ status_code' = 404
            /\ UNCHANGED shift_assignment
       ELSE LET s1 == CurrentShift(shift_assignment, employee1_id, day)
                s2 == CurrentShift(shift_assignment, employee2_id, day)
                prev_s1 == PrevShift(shift_assignment, employee1_id, day)
                prev_s2 == PrevShift(shift_assignment, employee2_id, day)
            IN IF s1 = s2 \/ ~SwapAllowed(s1, s2, prev_s1, prev_s2)
               THEN /\ status_code' = 400
                    /\ UNCHANGED shift_assignment
               ELSE /\ status_code' = 200
                    /\ shift_assignment' =
                         [shift_assignment EXCEPT
                            ![employee1_id, day] = Received(@, s2),
                            ![employee2_id, day] = Received(@, s1)]
    /\ adjust_request' = <<>>
    /\ UNCHANGED <<pc, Engine, Inputs, Probe, random_state>>

\* delete_shift_schedule, lines 163-219: the month's records are deleted.
\* month_ok is FALSE for a month that is illegal or past.
delete_shift_schedule(month_ok) ==
    /\ pc = "idle"
    /\ requests < MaxRequests
    /\ requests' = requests + 1
    /\ handler' = "delete_shift_schedule"
    /\ IF ~month_ok
       THEN /\ status_code' = 400
            /\ UNCHANGED shift_assignment
       ELSE IF ~Existing(shift_assignment)
       THEN /\ status_code' = 200
            /\ UNCHANGED shift_assignment
       ELSE /\ status_code' = 200
            /\ shift_assignment' = EmptyStore(employee_names, total_days)
    /\ adjust_request' = <<>>
    /\ UNCHANGED <<pc, Engine, Inputs, Probe, random_state>>

\* The values a client sends: an id that is on no roster (0) and two that are,
\* a day outside the month (0) and two inside it, the four shift codes and
\* one number that is no shift code
RequestEmployees == {0, 1, 2}

RequestDays == {0, 1, 2}

RequestCodes == SHIFT_NAMES \cup {Cardinality(SHIFT_NAMES)}

\* The bodies of an adjust_shift request: lists of (day, new code) entries
Entries ==
    {<<entry>> : entry \in RequestDays \X RequestCodes}

\* The service over an empty table, or a direct call of the engine
InitApi ==
    /\ \E K \in {min_required_employees - 1, min_required_employees} :
         employee_names = [i \in 1..K |-> i]
    /\ total_days = pattern_days
    /\ NoCall
    /\ shift_assignment = EmptyStore(employee_names, total_days)
    /\ status_code = 0
    /\ requests = 0
    /\ \/ pc = "idle" /\ handler = "none" /\ random_state = Unseeded
       \/ /\ pc = "start"
          /\ handler = "generate_optimized_shifts"
          /\ random_state \in 0..(MaxSeed - 1)

NextApi ==
    \/ \E force \in BOOLEAN, month_ok \in BOOLEAN, seed \in 0..(MaxSeed - 1) :
         assign_shifts(force, month_ok, seed)
    \/ assign_shifts_store
    \/ \E employee_id \in RequestEmployees, entries \in Entries :
         adjust_shift(employee_id, entries)
    \/ \E employee1_id \in RequestEmployees, employee2_id \in RequestEmployees,
          day \in RequestDays :
         swap_shifts(employee1_id, employee2_id, day)
    \/ \E month_ok \in BOOLEAN : delete_shift_schedule(month_ok)
    \/ Begin
    \/ NightPairStep
    \/ SingleNightStep
    \/ StreakStep
    \/ WeekStep
    \/ SweepStep
    \/ InitialStep
    \/ PatternStep
    \/ BalanceStep
    \/ PresenceStep
    \/ NightBlockStep
    \/ MorningAfterNightStep
    \/ FinalCorrectorStep
    \/ FinalCheckStep

SpecApi == InitApi /\ [][NextApi]_vars

\* -------------------------------------------- the Final Check on its own
\* lines 827-866 read employee_shifts only: here the loop runs over any
\* matrix of codes and unset cells for a roster of K and a period of T days
InitFinalCheck ==
    /\ pc = "final"
    /\ idx = 0
    /\ \E K \in 1..MaxCheckCells : employee_names = [i \in 1..K |-> i]
    /\ total_days \in 1..MaxCheckDays
    /\ Len(employee_names) * total_days <= MaxCheckCells
    /\ employee_shifts \in
         [Range(employee_names) -> [0..(total_days - 1) -> SHIFT_NAMES \cup {None}]]
    /\ shift_counts = <<>>
    /\ days_with_offs_count = <<>>
    /\ last_pair_end = <<>>
    /\ night_assigned = <<>>
    /\ last_off_day = <<>>
    /\ weekday_offs = <<>>
    /\ nn_warned = {}
    /\ final_errors = 0
    /\ final_warnings = 0
    /\ shift_assignment = EmptyStore(employee_names, total_days)
    /\ status_code = 0
    /\ requests = 0
    /\ random_state = Unseeded
    /\ handler = "generate_optimized_shifts"
    /\ viable_args = <<>>
    /\ viable_returned = FALSE
    /\ adjust_request = <<>>
    /\ writes = {}

NextFinalCheck == FinalCheckStep

SpecFinalCheck == InitFinalCheck /\ [][NextFinalCheck]_vars

\* ----------------------------------------- is_shift_viable on its own
\* A direct call is_shift_viable(employee_shifts, name, day, shift, total_days)
\* over any matrix of codes and unset cells, for one employee or two
InitViable ==
    /\ pc = "is_shift_viable"
    /\ idx = 0
    /\ \E K \in {1, 2} : employee_names = [i \in 1..K |-> i]
    /\ total_days \in 1..MaxViableCells
    /\ Len(employee_names) * total_days <= MaxViableCells
    /\ employee_shifts \in
         [Range(employee_names) -> [0..(total_days - 1) -> SHIFT_NAMES \cup {None}]]
    /\ shift_counts = <<>>
    /\ days_with_offs_count = <<>>
    /\ last_pair_end = <<>>
    /\ night_assigned = <<>>
    /\ last_off_day = <<>>
    /\ weekday_offs = <<>>
    /\ nn_warned = {}
    /\ final_errors = 0
    /\ final_warnings = 0
    /\ shift_assignment = EmptyStore(employee_names, total_days)
    /\ status_code = 0
    /\ requests = 0
    /\ random_state = Unseeded
    /\ handler = "is_shift_viable"
    /\ viable_args = <<>>
    /\ viable_returned = FALSE
    /\ adjust_request = <<>>
    /\ writes = {}

\* the call and its return value (lines 230-270)
ViableCall(name, day, shift) ==
    /\ pc = "is_shift_viable"
    /\ pc' = "returned"
    /\ viable_args' = <<name, day, shift>>
    /\ viable_returned' = is_shift_viable(employee_shifts, name, day, shift, total_days)
    /\ UNCHANGED <<Engine, Inputs, shift_assignment, status_code, requests,
                   random_state, handler, adjust_request>>

NextViable ==
    \E name \in Range(employee_names), day \in 0..total_days,
       shift \in SHIFT_NAMES \cup {None} :
         ViableCall(name, day, shift)

SpecViable == InitViable /\ [][NextViable]_vars

\* ------------------------------- the Night-Block Guarantor on its own
\* lines 691-707 read and write employee_shifts and shift_counts only: here
\* the loop runs over any matrix of codes and unset cells for a roster of K
\* and a period of T days, with the tallies of the recount of lines 495-500
InitNightBlock ==
    /\ pc = "p46"
    /\ idx = 1
    /\ \E K \in 1..MaxBlockCells : employee_names = [i \in 1..K |-> i]
    /\ total_days \in 1..MaxBlockCells
    /\ Len(employee_names) * total_days <= MaxBlockCells
    /\ employee_shifts \in
         [Range(employee_names) -> [0..(total_days - 1) -> SHIFT_NAMES \cup {None}]]
    /\ shift_counts = Recount(employee_shifts, employee_names, total_days)
    /\ days_with_offs_count = <<>>
    /\ last_pair_end = <<>>
    /\ night_assigned = <<>>
    /\ last_off_day = <<>>
    /\ weekday_offs = <<>>
    /\ nn_warned = {}
    /\ final_errors = 0
    /\ final_warnings = 0
    /\ shift_assignment = EmptyStore(employee_names, total_days)
    /\ status_code = 0
    /\ requests = 0
    /\ random_state = Unseeded
    /\ handler = "generate_optimized_shifts"
    /\ viable_args = <<>>
    /\ viable_returned = FALSE
    /\ adjust_request = <<>>
    /\ writes = {}

NextNightBlock == NightBlockStep

SpecNightBlock == InitNightBlock /\ [][NextNightBlock]_vars

\* --------------------------------- the Pattern Replicator on its own
\* lines 473-491 for one employee and a period of 29 days: day 28 copies day 0
\* and is judged against the days before it. The row varies in day 0, in the
\* MaxPatternBack days before day 28 (all set, as Phase 2 leaves the first 28
\* days) and in day 28 itself (set or unset); the days between, which the
\* phase does not read, are Evening
InitPattern ==
    /\ pc = "p3"
    /\ idx = pattern_days
    /\ employee_names = <<1>>
    /\ total_days = pattern_days + 1
    /\ \E first \in SHIFT_NAMES, last \in SHIFT_NAMES \cup {None},
          back \in [(pattern_days - MaxPatternBack)..(pattern_days - 1) -> SHIFT_NAMES] :
         employee_shifts = [e \in {1} |-> [d \in 0..(total_days - 1) |->
            IF d = 0 THEN first
            ELSE IF d = pattern_days THEN last
            ELSE IF d \in DOMAIN back THEN back[d]
            ELSE 2]]
    /\ shift_counts = Recount(employee_shifts, employee_names, total_days)
    /\ days_with_offs_count = <<>>
    /\ last_pair_end = <<>>
    /\ night_assigned = <<>>
    /\ last_off_day = <<>>
    /\ weekday_offs = <<>>
    /\ nn_warned = {}
    /\ final_errors = 0
    /\ final_warnings = 0
    /\ shift_assignment = EmptyStore(employee_names, total_days)
    /\ status_code = 0
    /\ requests = 0
    /\ random_state = Unseeded
    /\ handler = "generate_optimized_shifts"
    /\ viable_args = <<>>
    /\ viable_returned = FALSE
    /\ adjust_request = <<>>
    /\ writes = {}

NextPattern == PatternStep

SpecPattern == InitPattern /\ [][NextPattern]_vars

\* ------------------------------------------- the Balancer on its own
\* lines 495-575 over a matrix of three employees, the fewest with whom a day
\* can hold more than two Evenings or more than two Mornings: every cell holds
\* Morning, Evening or Night, but for one cell that may be Off or unset; the
\* tallies are those of the recount of lines 495-500
InitBalance ==
    /\ pc = "p4"
    /\ idx = 0
    /\ employee_names = <<1, 2, 3>>
    /\ total_days \in 1..MaxBalanceDays
    /\ \E worked \in [Range(employee_names) -> [0..(total_days - 1) -> {1, 2, 3}]],
          emp \in Range(employee_names), day \in 0..(total_days - 1),
          s \in SHIFT_NAMES \cup {None} :
         /\ s \in {1, 2, 3} => (s = worked[emp][day] /\ emp = 1 /\ day = 0)
         /\ employee_shifts = [worked EXCEPT ![emp][day] = s]
    /\ shift_counts = Recount(employee_shifts, employee_names, total_days)
    /\ days_with_offs_count = <<>>
    /\ last_pair_end = <<>>
    /\ night_assigned = <<>>
    /\ last_off_day = <<>>
    /\ weekday_offs = <<>>
    /\ nn_warned = {}
    /\ final_errors = 0
    /\ final_warnings = 0
    /\ shift_assignment = EmptyStore(employee_names, total_days)
    /\ status_code = 0
    /\ requests = 0
    /\ random_state = Unseeded
    /\ handler = "generate_optimized_shifts"
    /\ viable_args = <<>>
    /\ viable_returned = FALSE
    /\ adjust_request = <<>>
    /\ writes = {}

\* the Balancer's steps only: the call is followed up to the end of Phase 4
NextBalance == BalanceStep

SpecBalance == InitBalance /\ [][NextBalance]_vars

\* ------------------------------------- the Final Corrector on its own
\* lines 752-824 over any matrix of codes and unset cells for a roster of K
\* and a period of T days, with the tallies of a recount and the Off cells of
\* each day booked in days_with_offs_count
InitCorrector ==
    /\ pc = "p6"
    /\ idx = 1
    /\ \E K \in 1..MaxFixCells : employee_names = [i \in 1..K |-> i]
    /\ total_days \in 1..MaxFixCells
    /\ Len(employee_names) * total_days <= MaxFixCells
    /\ employee_shifts \in
         [Range(employee_names) -> [0..(total_days - 1) -> SHIFT_NAMES \cup {None}]]
    /\ shift_counts = Recount(employee_shifts, employee_names, total_days)
    /\ days_with_offs_count =
         [d \in 0..(total_days - 1) |-> CountDay(employee_shifts, employee_names, d, 0)]
    /\ last_pair_end = <<>>
    /\ night_assigned = <<>>
    /\ last_off_day = <<>>
    /\ weekday_offs = <<>>
    /\ nn_warned = {}
    /\ final_errors = 0
    /\ final_warnings = 0
    /\ shift_assignment = EmptyStore(employee_names, total_days)
    /\ status_code = 0
    /\ requests = 0
    /\ random_state = Unseeded
    /\ handler = "generate_optimized_shifts"
    /\ viable_args = <<>>
    /\ viable_returned = FALSE
    /\ adjust_request = <<>>
    /\ writes = {}

NextCorrector == FinalCorrectorStep

SpecCorrector == InitCorrector /\ [][NextCorrector]_vars

\* ------------------------------ the Night-Pair Allocator on its own
\* assign_night_shift_pairs (lines 285-307) called as line 332 calls it, over
\* an empty matrix and a zeroed days_with_offs_count, for a roster of any size:
\* with fewer than six employees the 10-day gap decides who is eligible
InitPairs ==
    /\ pc = "p0_pairs"
    /\ idx = 0
    /\ \E K \in 1..MaxPairEmployees : employee_names = [i \in 1..K |-> i]
    /\ total_days \in 1..MaxPairDays
    /\ employee_shifts =
         [e \in Range(employee_names) |-> [d \in 0..(total_days - 1) |-> None]]
    /\ shift_counts = [e \in Range(employee_names) |-> [c \in SHIFT_NAMES |-> 0]]
    /\ days_with_offs_count = [d \in 0..(total_days - 1) |-> 0]
    /\ last_pair_end = [e \in Range(employee_names) |-> -100]
    /\ night_assigned = [d \in 0..(total_days - 1) |-> FALSE]
    /\ last_off_day = <<>>
    /\ weekday_offs = <<>>
    /\ nn_warned = {}
    /\ final_errors = 0
    /\ final_warnings = 0
    /\ shift_assignment = EmptyStore(employee_names, total_days)
    /\ status_code = 0
    /\ requests = 0
    /\ random_state = Unseeded
    /\ handler = "generate_optimized_shifts"
    /\ viable_args = <<>>
    /\ viable_returned = FALSE
    /\ adjust_request = <<>>
    /\ writes = {}

NextPairs == NightPairStep

SpecPairs == InitPairs /\ [][NextPairs]_vars

\* --------------------------------------- the repair phases on their own
\* lines 495-824, from the recount at the start of the Balancer to the end of
\* the Final Corrector, over any matrix of codes and unset cells for a roster
\* of K and a period of T days; the Off cells of each day are booked in
\* days_with_offs_count
InitRepair ==
    /\ pc = "p4"
    /\ idx = 0
    /\ \E K \in 1..MaxRepairCells : employee_names = [i \in 1..K |-> i]
    /\ total_days \in 1..MaxRepairCells
    /\ Len(employee_names) * total_days <= MaxRepairCells
    /\ employee_shifts \in
         [Range(employee_names) -> [0..(total_days - 1) -> SHIFT_NAMES \cup {None}]]
    /\ shift_counts = Recount(employee_shifts, employee_names, total_days)
    /\ days_with_offs_count =
         [d \in 0..(total_days - 1) |-> CountDay(employee_shifts, employee_names, d, 0)]
    /\ last_pair_end = <<>>
    /\ night_assigned = <<>>
    /\ last_off_day = <<>>
    /\ weekday_offs = <<>>
    /\ nn_warned = {}
    /\ final_errors = 0
    /\ final_warnings = 0
    /\ shift_assignment = EmptyStore(employee_names, total_days)
    /\ status_code = 0
    /\ requests = 0
    /\ random_state = Unseeded
    /\ handler = "generate_optimized_shifts"
    /\ viable_args = <<>>
    /\ viable_returned = FALSE
    /\ adjust_request = <<>>
    /\ writes = {}

NextRepair ==
    \/ BalanceStep
    \/ PresenceStep
    \/ NightBlockStep
    \/ MorningAfterNightStep
    \/ FinalCorrectorStep

SpecRepair == InitRepair /\ [][NextRepair]_vars

\* ------------------------------------------------- adjust_shift on its own
\* One adjust_shift request with a body of up to MaxEntries entries, sent to a
\* table that holds any codes for one employee and the two days of
\* RequestDays that lie inside the month
EntryLists ==
    UNION {[1..n -> RequestDays \X RequestCodes] : n \in 1..MaxEntries}

InitAdjust ==
    /\ employee_names = <<1>>
    /\ total_days = 2
    /\ NoCall
    /\ shift_assignment \in
         [Range(employee_names) \X (1..total_days) ->
            {<<>>} \cup {<<c>> : c \in SHIFT_NAMES}]
    /\ status_code = 0
    /\ requests = MaxRequests - 1
    /\ pc = "idle"
    /\ handler = "none"
    /\ random_state = Unseeded

NextAdjust ==
    /\ requests < MaxRequests
    /\ \E employee_id \in RequestEmployees, entries \in EntryLists :
          adjust_shift(employee_id, entries)

SpecAdjust == InitAdjust /\ [][NextAdjust]_vars

\* ------------------------------------------------------------------ claims
Returned == pc = "done"
Employees == Range(employee_names)
Days == 0..(total_days - 1)
Count(day, s) == CountDay(employee_shifts, employee_names, day, s)
Cell(e, d) == employee_shifts[e][d]
SmallRoster == Len(employee_names) < min_required_employees

\* C1: for a roster of at least 6 employees and a month length (28 days or
\* more), every day of the returned matrix has exactly one employee on Night
\* and exactly two on Evening, whatever the random draws.
C1_NightOneEveningTwo ==
    (Returned /\ ~SmallRoster /\ total_days >= pattern_days)
        => \A d \in Days : Count(d, Night) = 1 /\ Count(d, Evening) = 2

\* C2: for a roster of at least 6 employees, every day of the returned matrix
\* of a month (28 days or more) has exactly one employee Off.
C2_ExactlyOneOff ==
    (Returned /\ ~SmallRoster /\ total_days >= pattern_days)
        => \A d \in Days : Count(d, Off) = 1

\* C3: in the returned matrix no employee has Night on day d-1 and Morning on
\* day d, for every d > 0.
C3_NoMorningAfterNight ==
    Returned => \A e \in Employees : \A d \in 1..(total_days - 1) :
                   ~(Cell(e, d - 1) = Night /\ Cell(e, d) = Morning)

\* C4: in the returned matrix no employee has Night on three consecutive days.
C4_NoThreeNights ==
    Returned => \A e \in Employees : \A d \in 0..(total_days - 3) :
                   ~(Cell(e, d) = Night /\ Cell(e, d + 1) = Night
                       /\ Cell(e, d + 2) = Night)

\* C4 witness: a returned matrix in which an employee has Night on two
\* consecutive days right after a day that is not the start of the period,
\* so that a third Night before or after the block was possible.
C4_NightBlockInside ==
    Returned /\ \E e \in Employees : \E d \in 1..(total_days - 3) :
                   Cell(e, d) = Night /\ Cell(e, d + 1) = Night

\* C5: in the returned matrix, whenever an employee has Night on days d and
\* d+1 and d+2 is inside the period, the cell of day d+2 is Off.
C5_OffAfterNightNight ==
    Returned => \A e \in Employees : \A d \in 0..(total_days - 3) :
                   (Cell(e, d) = Night /\ Cell(e, d + 1) = Night)
                       => Cell(e, d + 2) = Off

\* C5 witness: a returned matrix in which every employee has a Night-Night
\* block whose following day is inside the period.
C5_EveryoneHasFollowedBlock ==
    Returned /\ \A e \in Employees : \E d \in 0..(total_days - 3) :
                   Cell(e, d) = Night /\ Cell(e, d + 1) = Night

\* C6: in the returned matrix every employee has Night on two consecutive
\* days, except the employees for whom Phase 4.6 logged that no viable
\* Night-Night block exists.
C6_NightBlockOrWarning ==
    Returned => \A e \in Employees :
                   has_nn(employee_shifts[e], total_days) \/ e \in nn_warned

\* C7 as claimed: with fewer than 6 employees generate_optimized_shifts raises
\* before any cell is assigned and never returns a matrix, and assign_shifts
\* answers 400 and leaves the stored assignments of the month as they are.
C7_SmallRoster400 ==
    [][SmallRoster =>
         /\ pc' # "done"
         /\ employee_shifts' = <<>>
         /\ (pc = "start" => pc' = "raised")
         /\ \A force \in BOOLEAN, month_ok \in BOOLEAN, seed \in 0..(MaxSeed - 1) :
              assign_shifts(force, month_ok, seed) =>
                 /\ status_code' = 400
                 /\ shift_assignment' = shift_assignment
                 /\ pc' = "idle"]_vars

\* C7 amended: as C7, but assign_shifts answers 409 instead of 400 when the
\* month is acceptable, it already has stored assignments and force is false;
\* in every case the stored assignments stay as they are.
C7_SmallRosterRejected ==
    [][SmallRoster =>
         /\ pc' # "done"
         /\ employee_shifts' = <<>>
         /\ (pc = "start" => pc' = "raised")
         /\ \A force \in BOOLEAN, month_ok \in BOOLEAN, seed \in 0..(MaxSeed - 1) :
              assign_shifts(force, month_ok, seed) =>
                 /\ status_code' =
                      IF month_ok /\ Existing(shift_assignment) /\ ~force
                      THEN 409 ELSE 400
                 /\ shift_assignment' = shift_assignment
                 /\ pc' = "idle"]_vars

\* C7 witness: a roster of fewer than 6 whose month has stored assignments,
\* right after assign_shifts (forced) answered 400.
C7_RejectedOverStoredMonth ==
    /\ SmallRoster
    /\ handler = "assign_shifts"
    /\ pc = "idle"
    /\ status_code = 400
    /\ Existing(shift_assignment)

C9_PresenceOnWorkedDays ==
    (Returned /\ ~SmallRoster) => \A d \in Days :
        (Count(d, Morning) + Count(d, Evening) + Count(d, Night) > 0)
            => (Count(d, Morning) > 0 /\ Count(d, Evening) > 0 /\ Count(d, Night) > 0)

\* The stored schedule as the endpoints read it: the code of an employee on a
\* day (1..total_days), Off when no record is stored
Code(e, d) ==
    IF shift_assignment[e, d] = <<>> THEN Off ELSE Head(shift_assignment[e, d])

\* A request names two distinct employees of the roster and a day of the month
ValidSwap(e1, e2, d) ==
    /\ e1 # e2
    /\ e1 \in Employees
    /\ e2 \in Employees
    /\ d \in 1..total_days

\* C11: swap_shifts on two distinct employees whose codes on the day are equal
\* (no record read as Off) answers 400 and leaves every stored assignment as
\* it is.
C11_EqualCodesRejected ==
    [][\A e1 \in RequestEmployees, e2 \in RequestEmployees, d \in RequestDays :
         (ValidSwap(e1, e2, d) /\ Code(e1, d) = Code(e2, d)
            /\ swap_shifts(e1, e2, d))
         => (status_code' = 400 /\ shift_assignment' = shift_assignment)]_vars

\* C11 witness: a swap was rejected over a table in which employee 1 holds a
\* stored Off on day 1 and employee 2 holds no record, and in which every
\* pair of employees has equal codes on every day.
C11_StoredOffAgainstUnset ==
    /\ handler = "swap_shifts"
    /\ status_code = 400
    /\ shift_assignment[1, 1] = <<Off>>
    /\ shift_assignment[2, 1] = <<>>
    /\ \A e1 \in Employees, e2 \in Employees, d \in 1..total_days :
          Code(e1, d) = Code(e2, d)

\* The code stored for an employee on the day before d is Night
NightBefore(e, d) == d >= 2 /\ shift_assignment[e, d - 1] # <<>> /\ Code(e, d - 1) = Night

\* C12: swap_shifts answers 400 and leaves every stored assignment as it is
\* whenever one of the two employees would receive Morning or Night on the day
\* while the code stored for that employee on the previous day is Night.
C12_RestRuleRejected ==
    [][\A e1 \in RequestEmployees, e2 \in RequestEmployees, d \in RequestDays :
         (/\ ValidSwap(e1, e2, d)
          /\ \/ Code(e2, d) \in {Morning, Night} /\ NightBefore(e1, d)
             \/ Code(e1, d) \in {Morning, Night} /\ NightBefore(e2, d)
          /\ swap_shifts(e1, e2, d))
         => (status_code' = 400 /\ shift_assignment' = shift_assignment)]_vars

\* C12 witness: a swap was rejected over a table in which employee 1 has Night
\* on day 1 and a code other than Morning on day 2, and employee 2 has Morning
\* on day 2: the swap of day 2 would give employee 1 a Morning after a Night.
C12_MorningAfterNightOffered ==
    /\ handler = "swap_shifts"
    /\ status_code = 400
    /\ NightBefore(1, 2)
    /\ Code(2, 2) = Morning
    /\ Code(1, 2) # Morning

\* The schedule held by table sa has no Morning on the day directly after a
\* Night, for any employee (no record read as Off)
RestKept(sa) ==
    \A e \in Employees : \A d \in 2..total_days :
        ~(CurrentShift(sa, e, d - 1) = Night /\ CurrentShift(sa, e, d) = Morning)

\* C13: from a stored schedule without a Morning directly after a Night,
\* every accepted swap_shifts yields a stored schedule that still has none,
\* on the days day-1/day as well as on the days day/day+1.
C13_SwapKeepsRest ==
    [][\A e1 \in RequestEmployees, e2 \in RequestEmployees, d \in RequestDays :
         (swap_shifts(e1, e2, d) /\ status_code' = 200
            /\ RestKept(shift_assignment))
         => RestKept(shift_assignment')]_vars

\* The number of employees who hold code c on day d in table sa
Holders(sa, d, c) == Cardinality({e \in Employees : CurrentShift(sa, e, d) = c})

\* C14: an accepted swap_shifts(A, B, day) gives A the code B held and B the
\* code A held (no record read as Off), leaves an employee whose new code is
\* Off without a record for the day, changes no other cell, and so keeps the
\* day's count of every code.
C14_SwapExchanges ==
    [][\A e1 \in RequestEmployees, e2 \in RequestEmployees, d \in RequestDays :
         (swap_shifts(e1, e2, d) /\ status_code' = 200)
         => /\ CurrentShift(shift_assignment', e1, d) = Code(e2, d)
            /\ CurrentShift(shift_assignment', e2, d) = Code(e1, d)
            /\ (Code(e2, d) = Off => shift_assignment'[e1, d] = <<>>)
            /\ (Code(e1, d) = Off => shift_assignment'[e2, d] = <<>>)
            /\ \A k \in DOMAIN shift_assignment :
                  k \notin {<<e1, d>>, <<e2, d>>}
                     => shift_assignment'[k] = shift_assignment[k]
            /\ \A c \in SHIFT_NAMES :
                  Holders(shift_assignment', d, c) = Holders(shift_assignment, d, c)]_vars

\* C14 witness: a swap was accepted and left employee 1 without a record on
\* day 1 and employee 2 with Morning, in a table that holds nothing else.
C14_OffReceivedNoRecord ==
    /\ handler = "swap_shifts"
    /\ status_code = 200
    /\ shift_assignment[1, 1] = <<>>
    /\ shift_assignment[2, 1] = <<Morning>>
    /\ \A k \in DOMAIN shift_assignment : k # <<2, 1>> => shift_assignment[k] = <<>>

\* A request to adjust_shift whose employee exists and whose entries all name
\* a day of the month and a code of SHIFT_NAMES
ValidAdjust(e, entries) ==
    /\ e \in Employees
    /\ \A i \in 1..Len(entries) :
         entries[i][1] \in 1..total_days /\ entries[i][2] \in SHIFT_NAMES

\* C15: adjust_shift for an existing employee with valid days and codes always
\* succeeds and leaves each listed cell holding its new code, whatever the
\* neighbouring days hold and whatever the day's counts become.
C15_AdjustAlwaysWrites ==
    [][\A e \in RequestEmployees, entries \in Entries :
         (ValidAdjust(e, entries) /\ adjust_shift(e, entries))
         => /\ status_code' = 200
            /\ \A i \in 1..Len(entries) :
                  /\ shift_assignment'[e, entries[i][1]] # <<>>
                  /\ Head(shift_assignment'[e, entries[i][1]]) = entries[i][2]]_vars

\* C15 witness: an adjustment succeeded and employee 1 holds a Morning on
\* day 2 behind a stored Night on day 1, on a day that has no Night at all.
C15_MorningWrittenAfterNight ==
    /\ handler = "adjust_shift"
    /\ status_code = 200
    /\ shift_assignment[1, 1] = <<Night>>
    /\ shift_assignment[1, 2] = <<Morning>>
    /\ Holders(shift_assignment, 2, Night) = 0

\* The stored table read as a schedule matrix: the first record of a cell is
\* its code, a cell without a record is unset
StoredMatrix(sa) ==
    [e \in Employees |->
       [d \in 0..(total_days - 1) |->
          IF sa[e, d + 1] = <<>> THEN None ELSE Head(sa[e, d + 1])]]

\* The rules of the Final Check find no critical error on any day of table sa
NoCriticalError(sa) ==
    \A day \in 0..(total_days - 1) :
       DayErrors(StoredMatrix(sa), employee_names, day) = 0

\* C16: when the rules of the Final Check report no critical error for the
\* stored schedule, they report none after a single adjust_shift of one cell.
C16_AdjustKeepsNoCritical ==
    [][\A e \in RequestEmployees, entries \in Entries :
         (adjust_shift(e, entries) /\ status_code' = 200
            /\ NoCriticalError(shift_assignment))
         => NoCriticalError(shift_assignment')]_vars

\* The cells of day d that hold code c
CellsOf(d, c) == {e \in Employees : Cell(e, d) = c}

\* C17: for each day the Final Check adds to final_errors exactly one error
\* per unset cell, one error if somebody works that day and Morning, Evening
\* or Night has nobody, and one error if the employees Off are not exactly
\* one; a day on which nobody works adds no presence error.
C17_CriticalErrorsOfDay ==
    [][(FinalCheckStep /\ idx < total_days)
       => LET working == CellsOf(idx, Morning) \cup CellsOf(idx, Evening)
                            \cup CellsOf(idx, Night)
              unset == Cardinality(CellsOf(idx, None))
              presence == IF working # {}
                             /\ \E c \in {Morning, Evening, Night} : CellsOf(idx, c) = {}
                          THEN 1 ELSE 0
              off == IF Cardinality(CellsOf(idx, Off)) # 1 THEN 1 ELSE 0
          IN final_errors' = final_errors + unset + presence + off]_vars

\* C17 witness: the check has finished over two days of three employees; on
\* the first nobody works (one cell unset, two Off), on the second Night is
\* missing and one employee is Off, and three critical errors were counted.
C17_AllKindsCounted ==
    /\ pc = "done"
    /\ Len(employee_names) = 3
    /\ total_days = 2
    /\ Cell(1, 0) = None /\ Cell(2, 0) = Off /\ Cell(3, 0) = Off
    /\ Cell(1, 1) = Morning /\ Cell(2, 1) = Evening /\ Cell(3, 1) = Off
    /\ final_errors = 3

\* Morning, Evening and Night each have somebody on day d
AllPresent(d) == \A c \in {Morning, Evening, Night} : CellsOf(d, c) # {}

\* The critical errors of day d that are not presence errors
OtherErrors(d) ==
    Cardinality(CellsOf(d, None)) + (IF Cardinality(CellsOf(d, Off)) # 1 THEN 1 ELSE 0)

\* C18 as stated: on a day with Morning, Evening and Night all present the
\* Final Check adds exactly one warning and no presence error when Night is
\* not 1, Evening is not 2 or Morning is not 2 (Morning > 2 included), and
\* no warning when the counts are exactly on target.
C18_WarningOffTwoMornings ==
    [][(FinalCheckStep /\ idx < total_days /\ AllPresent(idx))
       => /\ final_warnings' = final_warnings +
               (IF \/ Cardinality(CellsOf(idx, Night)) # 1
                   \/ Cardinality(CellsOf(idx, Evening)) # 2
                   \/ Cardinality(CellsOf(idx, Morning)) # 2
                THEN 1 ELSE 0)
          /\ final_errors' = final_errors + OtherErrors(idx)]_vars

\* C18 amended: on a day with Morning, Evening and Night all present the
\* Final Check adds exactly one warning and no presence error when Night is
\* not 1, Evening is not 2 or Morning is below 2, and no warning when Night
\* is 1, Evening is 2 and Morning is at least 2 (more than two Mornings are
\* on target).
C18_WarningOffTarget ==
    [][(FinalCheckStep /\ idx < total_days /\ AllPresent(idx))
       => /\ final_warnings' = final_warnings +
               (IF \/ Cardinality(CellsOf(idx, Night)) # 1
                   \/ Cardinality(CellsOf(idx, Evening)) # 2
                   \/ Cardinality(CellsOf(idx, Morning)) < 2
                THEN 1 ELSE 0)
          /\ final_errors' = final_errors + OtherErrors(idx)]_vars

\* C18 witness: the check has finished over a day of six employees with
\* three Mornings, two Evenings and one Night, and counted no warning.
C18_ThreeMorningsNoWarning ==
    /\ pc = "done"
    /\ Len(employee_names) = 6
    /\ Cardinality(CellsOf(0, Morning)) = 3
    /\ Cardinality(CellsOf(0, Evening)) = 2
    /\ Cardinality(CellsOf(0, Night)) = 1
    /\ final_warnings = 0

\* The codes of employee e on the k days before day d
Before(e, d, k) == [i \in 1..k |-> Cell(e, d - k + i - 1)]

\* One of the rest rules (i)..(v) forbids code c for employee e on day d
Forbidden(e, d, c) ==
    \/ d >= 2 /\ Before(e, d, 2) = <<Night, Night>>
    \/ c = Morning /\ d >= 1 /\ Cell(e, d - 1) = Night
    \/ c = Morning /\ d >= 2 /\ Before(e, d, 2) = <<Night, Evening>>
    \/ c = Morning /\ d >= 3 /\ Before(e, d, 3) = <<Night, Evening, Evening>>
    \/ c = Morning /\ d >= 4
          /\ Before(e, d, 4) \in {<<Night, Evening, Night, Evening>>,
                                  <<Evening, Night, Evening, Evening>>}

\* C19: is_shift_viable(schedule, e, d, c) returns true exactly when c is Off,
\* or c is Morning, Evening or Night, d lies inside e's row and none of the
\* rules (i)..(v) holds; the result stays the same when any cell other than
\* e's own cells of days d-4..d-1 is changed, and the call changes no cell.
C19_ViableExactly ==
    [][\A e \in Employees, d \in 0..total_days, c \in SHIFT_NAMES \cup {None} :
         ViableCall(e, d, c)
         => /\ viable_returned' =
                 (\/ c = Off
                  \/ /\ c \in {Morning, Evening, Night}
                     /\ d < total_days
                     /\ ~Forbidden(e, d, c))
            /\ \A e2 \in Employees, d2 \in Days, v \in SHIFT_NAMES \cup {None} :
                  (e2 # e \/ d2 >= d \/ d2 < d - 4)
                  => is_shift_viable([employee_shifts EXCEPT ![e2][d2] = v],
                                     e, d, c, total_days) = viable_returned'
            /\ employee_shifts' = employee_shifts]_vars

\* C19 witness: the call for Morning on the fifth day of a row that starts
\* Evening, Night, Evening, Evening has returned false.
C19_FourDayPatternRefused ==
    /\ pc = "returned"
    /\ viable_args = <<1, 4, Morning>>
    /\ Before(1, 4, 4) = <<Evening, Night, Evening, Evening>>
    /\ viable_returned = FALSE

\* The phases that have written a Morning, Evening or Night so far
WritingPhases == {w[1] : w \in writes}

\* C20: every cell a generation phase sets to Morning, Evening or Night is
\* legal at the moment it is written: is_shift_viable returned true for that
\* employee, day and code on the matrix as it stood just before the write
\* (both Nights of the Night-Pair Allocator, both Nights of the Night-Block
\* Guarantor and the replacement drafts of the Final Corrector included).
C20_EveryWriteLegal == \A w \in writes : w[5]

\* C20 witness: a generation has returned in which the Night-Pair Allocator,
\* the Night-Block Guarantor and a replacement draft of the Final Corrector
\* have each written, and every write of the log was legal.
C20_PairBlockAndDraftWritten ==
    /\ pc = "done"
    /\ {"p0_pairs", "p46", "p6"} \subseteq WritingPhases
    /\ \A w \in writes : w[5]

Replicated(es, e, d) ==
    LET copy == es[e][d % 28]
        legal(s) == is_shift_viable(es, e, d, s, total_days)
    IN IF copy # None /\ legal(copy) THEN copy
       ELSE IF legal(2) THEN 2
       ELSE IF legal(1) THEN 1
       ELSE IF legal(3) THEN 3
       ELSE None

C23_PatternReplicated ==
    [][PatternStep /\ pc' = "p3" =>
         \A e \in Range(employee_names) : \A d \in 0..(total_days - 1) :
            employee_shifts'[e][d] =
               IF d = idx /\ employee_shifts[e][d] = None
               THEN Replicated(employee_shifts, e, d)
               ELSE employee_shifts[e][d]]_vars

\* the replicator has filled day 29 of a 29-day period, and for one employee
\* the code of day 1 was not legal there, so that an alternate stands instead
C23_AlternateTaken ==
    /\ pc = "p3" /\ idx > 28
    /\ \E w \in writes :
         w[1] = "p3" /\ w[3] >= 28 /\ employee_shifts[w[2]][w[3] % 28] # w[4]

\* C24: the Balancer does not violate legality: if every Morning, Evening and
\* Night cell satisfies is_shift_viable against its own predecessors before
\* the Balancer works on a day, every such cell does afterwards, the moved
\* cells and the later cells of the moved employees included; and no Off or
\* unset cell is changed.
LegalCells(es) ==
    \A e \in Range(employee_names) : \A d \in 0..(total_days - 1) :
       es[e][d] \in {1, 2, 3} => is_shift_viable(es, e, d, es[e][d], total_days)

MorningAfterPattern(row, d) ==
    LET before(k, codes) ==
            d >= k /\ \A i \in 1..k : row[d - k + i - 1] = codes[i]
    IN /\ row[d] = 1
       /\ \/ before(2, <<3, 2>>)
          \/ before(3, <<3, 2, 2>>)
          \/ before(4, <<3, 2, 3, 2>>)
          \/ before(4, <<2, 3, 2, 2>>)

PairEligible(e, d) ==
    /\ last_pair_end[e] + 10 <= d
    /\ employee_shifts[e][d] = None
    /\ employee_shifts[e][d + 1] = None
    /\ d + 2 < total_days => employee_shifts[e][d + 2] = None

C26_PairToLongestRested ==
    [][NightPairStep /\ employee_shifts' # employee_shifts =>
         \E emp \in Range(employee_names) :
            /\ PairEligible(emp, idx)
            /\ \A e \in Range(employee_names) :
                  PairEligible(e, idx) => last_pair_end[emp] <= last_pair_end[e]
            /\ \A e \in Range(employee_names) : \A d \in 0..(total_days - 1) :
                  employee_shifts'[e][d] =
                     IF e = emp /\ d \in {idx, idx + 1} THEN 3
                     ELSE IF e = emp /\ d = idx + 2 THEN 0
                     ELSE employee_shifts[e][d]]_vars

\* an employee has been given a second pair, after days on which the gap left
\* nobody eligible
C26_SecondPairAfterGap ==
    /\ pc = "p0_pairs"
    /\ \E e \in Range(employee_names) : \E d \in 2..(total_days - 2) :
         /\ last_pair_end[e] = d + 1
         /\ employee_shifts[e][0] = 3
         /\ \E f \in 0..(d - 1) : ~night_assigned[f]

\* C27: tally consistency in the repair phases: from the recount at the start
\* of the Balancer on, after every move of the Balancer, the Presence
\* Guarantor, the Night-Block Guarantor, the M-after-N fix and the Final
\* Corrector, each employee's tally per code equals the number of cells of
\* that code in the employee's row; and at the end of a Balancer iteration
\* the day's local counts equal a recount of the day's column.
RepairPhases == {"p4", "p45", "p46", "p5", "p6", "final", "done", "raised"}

C28_NoThirdNight ==
    [][NightBlockStep =>
         \A e \in Range(employee_names) : \A d \in 0..(total_days - 2) :
            (/\ employee_shifts'[e][d] = 3 /\ employee_shifts'[e][d + 1] = 3
             /\ employee_shifts[e][d] # 3 /\ employee_shifts[e][d + 1] # 3)
               => /\ d >= 1 => employee_shifts'[e][d - 1] # 3
                  /\ d + 2 < total_days => employee_shifts'[e][d + 2] # 3]_vars

\* C29: adjust_shift is all-or-nothing over its entries: if an entry has a day
\* outside the month or a code outside {0, 1, 2, 3}, the call fails and no cell
\* of the stored schedule is changed, those of the entries before it included.
InvalidEntry(entry) ==
    entry[1] < 1 \/ entry[1] > total_days \/ entry[2] \notin {0, 1, 2, 3}

C29_AdjustAllOrNothing ==
    [][(/\ requests' = requests + 1
        /\ handler' = "adjust_shift"
        /\ \E i \in 1..Len(adjust_request'[2]) : InvalidEntry(adjust_request'[2][i]))
          => /\ status_code' \in {400, 404}
             /\ shift_assignment' = shift_assignment]_vars

\* a request has failed on its second entry after a first entry that asked for
\* another code than the one stored; the stored code is still there
C29_FailedAfterValidEntry ==
    /\ handler = "adjust_shift"
    /\ status_code = 400
    /\ Len(adjust_request) = 2
    /\ adjust_request[1] \in Range(employee_names)
    /\ Len(adjust_request[2]) = 2
    /\ ~InvalidEntry(adjust_request[2][1])
    /\ InvalidEntry(adjust_request[2][2])
    /\ shift_assignment[adjust_request[1], adjust_request[2][1][1]]
         # <<adjust_request[2][1][2]>>

\* C30: under serialized calls, after any sequence of assign_shifts (with or
\* without force), adjust_shift, swap_shifts and delete_shift_schedule requests
\* from an empty table there is at most one stored ShiftAssignment record per
\* employee and date.
C30_OneRecordPerCell ==
    \A k \in DOMAIN shift_assignment : Len(shift_assignment[k]) <= 1

\* a swap has been accepted over a stored schedule: a record is stored for
\* every employee of the roster on day 1 or day 2
C30_SwappedOverSchedule ==
    /\ handler = "swap_shifts"
    /\ status_code = 200
    /\ requests = 2
    /\ \E d \in {1, 2} : \A e \in Range(employee_names) :
         Len(shift_assignment[e, d]) = 1
====
